---- MODULE Spec2Model ----
(***************************************************************************)
(* Receipt matcher (src/src/matcher.py): the per-pair evaluation           *)
(* match_transaction_to_receipt, the per-transaction selection             *)
(* find_best_match and the batch loop match_all_transactions.              *)
(*                                                                         *)
(* Representation.                                                         *)
(*  - A Python string is the tuple of its characters, so that upper(),     *)
(*    lower(), strip() and the substring test `in` are computed.  The two  *)
(*    umlaut characters of the keyword list are the one-character strings  *)
(*    "u-umlaut" and "U-UMLAUT".                                           *)
(*  - An optional value is None (the empty tuple) or Some(v) = <<v>>.      *)
(*  - A money amount is an integer number of 1/10000 EUR (Cents(c) is c    *)
(*    cents), so that the static conversion rates 1.19 and 0.92 keep the   *)
(*    arithmetic exact.  A ratio (amount_diff_percent) is a fraction       *)
(*    [num, den] in lowest terms, compared by cross multiplication.        *)
(*    A tolerance is a number of 1/10000 (0.001 is 10, 0.20 is 2000).      *)
(*  - A date is a day number.                                              *)
(*  - fuzz.partial_ratio is a library function outside the repository.     *)
(*    It returns 100 when one argument occurs in the other; the state      *)
(*    variable partial_ratio holds the score it returns on every other     *)
(*    pair of strings, which is unknown but fixed.                         *)
(***************************************************************************)
EXTENDS Integers, Sequences, FiniteSets, TLC

VARIABLES
    matcher,        \* the ReceiptMatcher object: its three configuration fields
    partial_ratio,  \* fuzz.partial_ratio: [score], see above
    pc,             \* "idle", or the position inside match_all_transactions
    call,           \* the call of a pure method: its arguments and its result
    transactions,   \* match_all_transactions: argument
    receipts,       \* match_all_transactions: argument
    amount_frequency, \* match_all_transactions: local, the frequency map
    results,        \* match_all_transactions: local, the list being built
    used_receipts,  \* match_all_transactions: local, the consumed filenames
    i,              \* match_all_transactions: the loop index (0-based)
    processor,      \* the ReceiptProcessor object, the folder it reads and its
                    \* call of process_all_receipts
    perf_tracker    \* a PerformanceTracker object, the calls of record made on
                    \* it and the result of its last get_stats

vars == <<matcher, partial_ratio, pc, call, transactions, receipts,
          amount_frequency, results, used_receipts, i, processor,
          perf_tracker>>

-----------------------------------------------------------------------------
(* Optional values, fractions, dictionaries.                               *)

None == <<>>

Some(v) == <<v>>

Val(o) == o[1]

Abs(x) == IF x < 0 THEN -x ELSE x

Max(x, y) == IF x >= y THEN x ELSE y

Min(x, y) == IF x <= y THEN x ELSE y

RECURSIVE GCD(_, _)

GCD(a, b) == IF b = 0 THEN a ELSE GCD(b, a % b)

\* the fraction n/d in lowest terms (n >= 0, d > 0)
Frac(n, d) == [num |-> n \div GCD(n, d), den |-> d \div GCD(n, d)]

FracLE(a, b) == a.num * b.den <= b.num * a.den

FracLT(a, b) == a.num * b.den < b.num * a.den

\* dict.get(key, default)
Get(d, k, default) == IF k \in DOMAIN d THEN d[k] ELSE default

-----------------------------------------------------------------------------
(* Strings.                                                                *)

LowerLetters ==
    <<"a","b","c","d","e","f","g","h","i","j","k","l","m","n","o","p","q",
      "r","s","t","u","v","w","x","y","z","u-umlaut","a-umlaut">>

UpperLetters ==
    <<"A","B","C","D","E","F","G","H","I","J","K","L","M","N","O","P","Q",
      "R","S","T","U","V","W","X","Y","Z","U-UMLAUT","A-UMLAUT">>

OtherChars ==
    {" ", "/", ".", "0", "1", "2", "3", "4", "5", "6", "7", "8", "9",
     ":", ",", "(", ")", "-", "EURO-SIGN"}

Chars ==
    {LowerLetters[n] : n \in 1..Len(LowerLetters)}
    \cup {UpperLetters[n] : n \in 1..Len(UpperLetters)}
    \cup OtherChars

\* the upper-case form of each character
upper_char ==
    [c \in Chars |->
        IF \E n \in 1..Len(LowerLetters) : LowerLetters[n] = c
        THEN UpperLetters[CHOOSE n \in 1..Len(LowerLetters) : LowerLetters[n] = c]
        ELSE c]

\* the lower-case form of each character
lower_char ==
    [c \in Chars |->
        IF \E n \in 1..Len(UpperLetters) : UpperLetters[n] = c
        THEN LowerLetters[CHOOSE n \in 1..Len(UpperLetters) : UpperLetters[n] = c]
        ELSE c]

NoUpper(s) == s

\* str.upper()
Upper(s) == [k \in 1..Len(s) |-> upper_char[s[k]]]

\* str.lower()
Lower(s) == [k \in 1..Len(s) |-> lower_char[s[k]]]

\* str.strip(): leading and trailing blanks removed
Strip(s) ==
    LET nonblank == {k \in 1..Len(s) : s[k] # " "}
    IN  IF nonblank = {} THEN <<>>
        ELSE LET lo == CHOOSE k \in nonblank : \A m \in nonblank : k <= m
                 hi == CHOOSE k \in nonblank : \A m \in nonblank : k >= m
             IN  SubSeq(s, lo, hi)

\* needle in hay
Contains(needle, hay) ==
    \E p \in 0..(Len(hay) - Len(needle)) :
        \A k \in 1..Len(needle) : hay[p + k] = needle[k]

\* the literals of the source
KW_MEHRWERTSTEUER == <<"M","E","H","R","W","E","R","T","S","T","E","U","E","R">>

KW_UMSATZSTEUER == <<"U","M","S","A","T","Z","S","T","E","U","E","R">>

KW_ABSCHLUSS == <<"A","B","S","C","H","L","U","S","S">>

KW_KONTOFUEHRUNG == <<"K","O","N","T","O","F","U-UMLAUT","H","R","U","N","G">>

KW_BANK_FEE == <<"B","A","N","K"," ","F","E","E">>

KW_SERVICE_FEE == <<"S","E","R","V","I","C","E"," ","F","E","E">>

KW_MONTHLY_FEE == <<"M","O","N","T","H","L","Y"," ","F","E","E">>

KW_GEBUEHR == <<"G","E","B","U-UMLAUT","H","R">>

S_USD == <<"U","S","D">>

S_GBP == <<"G","B","P">>

S_FOREIGN == <<"F","O","R","E","I","G","N">>

S_EUR == <<"E","U","R">>

S_None == <<"N","o","n","e">>

S_beatport == <<"b","e","a","t","p","o","r","t">>

S_amazon == <<"a","m","a","z","o","n">>

S_amzn == <<"a","m","z","n">>

S_google == <<"g","o","o","g","l","e">>

S_spotify == <<"s","p","o","t","i","f","y">>

S_spoti == <<"s","p","o","t","i">>

S_netflix == <<"n","e","t","f","l","i","x">>

S_apple == <<"a","p","p","l","e">>

S_paypal == <<"p","a","y","p","a","l">>

D_Rewe == <<"R","E","W","E"," ","S","A","G","T"," ","D","A","N","K","E","/","B","e","r","l","i","n">>

D_Unknown == <<"U","n","k","n","o","w","n"," ","M","e","r","c","h","a","n","t">>

D_MwstUpper == <<"M","E","H","R","W","E","R","T","S","T","E","U","E","R">>

D_MwstMixed == <<"M","e","h","r","w","e","r","t","s","t","e","u","e","r">>

D_KontoLower == <<"k","o","n","t","o","f","u-umlaut","h","r","u","n","g"," ","0","1">>

D_FeeSpotify == <<"M","o","n","t","h","l","y"," ","f","e","e"," ","S","p","o","t","i","f","y">>

D_Spotify == <<"S","p","o","t","i","f","y"," ","P","1","2">>

D_Amzn == <<"A","M","Z","N"," ","M","k","t","p"," ","D","E">>

D_Usd == <<"S","h","o","p"," ","u","s","d"," ","4","8",".","7","4">>

M_Rewe == <<"R","E","W","E">>

M_Spotify == <<" ","S","p","o","t","i","f","y"," ","A","B">>

-----------------------------------------------------------------------------
(* ReceiptMatcher.                                                         *)

\* tolerances are counted in 1/TolScale: 0.001 is 10, 0.20 is 2000
TolScale == 10000

Tol(t) == Frac(t, TolScale)

\* amounts are counted in 1/10000 EUR: one cent is 100
Cents(c) == c * 100

DefaultToleranceEur == 10

DefaultToleranceNonEur == 2000

DefaultMerchantThreshold == 60

\* __init__: the three fields of the object
ReceiptMatcher(amount_tolerance_percent, tolerance_non_eur, threshold) ==
    [amount_tolerance_eur |-> amount_tolerance_percent,
     amount_tolerance_non_eur |-> tolerance_non_eur,
     merchant_threshold |-> threshold]

\* the difference in EUR, not the relative difference, held against the tolerance
is_amount_match_absolute(self, amount1, amount2, is_eur) ==
    IF amount1 = None \/ amount2 = None THEN <<FALSE, Frac(1, 1)>>
    ELSE LET a1 == Abs(Val(amount1))
             a2 == Abs(Val(amount2))
             tolerance == IF is_eur THEN self.amount_tolerance_eur
                                    ELSE self.amount_tolerance_non_eur
         IN  <<FracLE(Frac(Abs(a1 - a2), Cents(100)), Tol(tolerance)),
               Frac(Abs(a1 - a2), Cents(100))>>

\* the amounts compared with their signs
is_amount_match_signed(self, amount1, amount2, is_eur) ==
    IF amount1 = None \/ amount2 = None THEN <<FALSE, Frac(1, 1)>>
    ELSE LET a1 == Val(amount1)
             a2 == Val(amount2)
         IN  IF a1 = 0 \/ a2 = 0
             THEN <<a1 = a2, IF a1 = a2 THEN Frac(0, 1) ELSE Frac(1, 1)>>
             ELSE LET diff_percent == Frac(Abs(a1 - a2), Abs(Max(a1, a2)))
                      tolerance == IF is_eur THEN self.amount_tolerance_eur
                                             ELSE self.amount_tolerance_non_eur
                  IN  <<FracLE(diff_percent, Tol(tolerance)), diff_percent>>

\* a difference equal to the tolerance rejected
is_amount_match_exclusive(self, amount1, amount2, is_eur) ==
    IF amount1 = None \/ amount2 = None THEN <<FALSE, Frac(1, 1)>>
    ELSE LET a1 == Abs(Val(amount1))
             a2 == Abs(Val(amount2))
         IN  IF a1 = 0 \/ a2 = 0
             THEN <<a1 = a2, IF a1 = a2 THEN Frac(0, 1) ELSE Frac(1, 1)>>
             ELSE LET diff_percent == Frac(Abs(a1 - a2), Max(a1, a2))
                      tolerance == IF is_eur THEN self.amount_tolerance_eur
                                             ELSE self.amount_tolerance_non_eur
                  IN  <<FracLT(diff_percent, Tol(tolerance)), diff_percent>>

\* is_amount_match: (is_match, diff_percent)
is_amount_match(self, amount1, amount2, is_eur) ==
    IF amount1 = None \/ amount2 = None THEN <<FALSE, Frac(1, 1)>>
    ELSE LET a1 == Abs(Val(amount1))
             a2 == Abs(Val(amount2))
         IN  IF a1 = 0 \/ a2 = 0
             THEN <<a1 = a2, IF a1 = a2 THEN Frac(0, 1) ELSE Frac(1, 1)>>
             ELSE LET diff_percent == Frac(Abs(a1 - a2), Max(a1, a2))
                      tolerance == IF is_eur THEN self.amount_tolerance_eur
                                             ELSE self.amount_tolerance_non_eur
                  IN  <<FracLE(diff_percent, Tol(tolerance)), diff_percent>>

\* fuzz.partial_ratio(s1, s2) of the library that ratio describes
fuzz_partial_ratio(ratio, s1, s2) ==
    IF Contains(s1, s2) \/ Contains(s2, s1)
    THEN 100
    ELSE ratio.score

\* calculate_merchant_similarity; ratio is fuzz.partial_ratio
calculate_merchant_similarity(merchant1, merchant2, ratio) ==
    IF merchant1 = None \/ merchant2 = None THEN 0
    ELSE IF Val(merchant1) = <<>> \/ Val(merchant2) = <<>> THEN 0
    ELSE fuzz_partial_ratio(ratio, Strip(Lower(Val(merchant1))),
                            Strip(Lower(Val(merchant2))))

\* an unknown currency converted at the USD rate
rates_unknown_as_usd(currency) ==
    CASE currency = S_EUR -> 100
      [] currency = S_GBP -> 119
      [] OTHER -> 92

\* the rates table, in hundredths; an unknown currency has rate 1.0
rates(currency) ==
    CASE currency = S_EUR -> 100
      [] currency = S_GBP -> 119
      [] currency = S_USD -> 92
      [] OTHER -> 100

\* the amount returned as it is, whatever the currency
convert_currency_unconverted(amount, currency) == amount

\* convert_currency_to_eur: amount * rate
convert_currency_to_eur(amount, currency) == (amount * rates(currency)) \div 100

exclude_keywords ==
    <<KW_MEHRWERTSTEUER, KW_UMSATZSTEUER, KW_ABSCHLUSS, KW_KONTOFUEHRUNG,
      KW_BANK_FEE, KW_SERVICE_FEE, KW_MONTHLY_FEE, KW_GEBUEHR>>

\* the first keyword of the list that the upper-cased description contains, 0 if none
exclude_hit(trans_desc) ==
    LET hits == {k \in 1..Len(exclude_keywords) : Contains(exclude_keywords[k], trans_desc)}
    IN  IF hits = {} THEN 0 ELSE CHOOSE k \in hits : \A m \in hits : k <= m

specific_merchants ==
    <<[name |-> S_beatport, variations |-> {S_beatport}],
      [name |-> S_amazon, variations |-> {S_amazon, S_amzn}],
      [name |-> S_google, variations |-> {S_google}],
      [name |-> S_spotify, variations |-> {S_spotify, S_spoti}],
      [name |-> S_netflix, variations |-> {S_netflix}],
      [name |-> S_apple, variations |-> {S_apple}],
      [name |-> S_paypal, variations |-> {S_paypal}]>>

\* the first known merchant the transaction names and the receipt does not, 0 if none
merchant_mismatch(trans_desc_lower, receipt_merchant_lower) ==
    LET bad == {k \in 1..Len(specific_merchants) :
                   /\ \E var \in specific_merchants[k].variations :
                          Contains(var, trans_desc_lower)
                   /\ ~ \E var \in specific_merchants[k].variations :
                          Contains(var, receipt_merchant_lower)}
    IN  IF bad = {} THEN 0 ELSE CHOOSE k \in bad : \A m \in bad : k <= m

\* the step of 50 kept up to four weeks
date_score_of_four_weeks(days_diff) ==
    IF days_diff = 0 THEN 100
    ELSE IF days_diff <= 7 THEN 90
    ELSE IF days_diff <= 14 THEN 70
    ELSE IF days_diff <= 28 THEN 50
    ELSE IF days_diff <= 30 THEN 30
    ELSE Max(0, 30 - days_diff)

\* the step function of the date proximity
date_score_of(days_diff) ==
    IF days_diff = 0 THEN 100
    ELSE IF days_diff <= 7 THEN 90
    ELSE IF days_diff <= 14 THEN 70
    ELSE IF days_diff <= 21 THEN 50
    ELSE IF days_diff <= 30 THEN 30
    ELSE Max(0, 30 - days_diff)

graduated_requires_merchant(merchant_score, amount_diff_percent) ==
    merchant_score >= 60

\* one cut-off of 5% for every merchant score below 60
graduated_accepts_up_to_five_percent(merchant_score, amount_diff_percent) ==
    IF merchant_score >= 60 THEN TRUE
    ELSE ~ FracLT(Frac(5, 100), amount_diff_percent)

\* a validation that lets every amount match through
graduated_accepts_always(merchant_score, amount_diff_percent) ==
    TRUE

\* "Original validation": the graduated merchant/amount trade-off
graduated_accepts(merchant_score, amount_diff_percent) ==
    IF merchant_score >= 60 THEN TRUE
    ELSE IF merchant_score >= 40 THEN ~ FracLT(Frac(5, 100), amount_diff_percent)
    ELSE IF merchant_score >= 25 THEN ~ FracLT(Frac(3, 100), amount_diff_percent)
    ELSE ~ FracLT(Frac(1, 100), amount_diff_percent)

\* the confidence rounded to the nearest integer, not truncated
confidence_of_rounded(amount_match, amount_diff_percent, merchant_score, date_score) ==
    LET d == IF FracLE(amount_diff_percent, Frac(1, 1)) THEN amount_diff_percent
             ELSE Frac(1, 1)
        amount_num == IF amount_match THEN 50 * (d.den - d.num) ELSE 0
    IN  (100 * amount_num + (35 * merchant_score + 15 * date_score) * d.den
             + 50 * d.den) \div (100 * d.den)

\* int(confidence): 50 * (1 - min(diff, 1.0)) if amount_match, + 0.35 * merchant
\* + 0.15 * date, truncated
confidence_of(amount_match, amount_diff_percent, merchant_score, date_score) ==
    LET d == IF FracLE(amount_diff_percent, Frac(1, 1)) THEN amount_diff_percent
             ELSE Frac(1, 1)
        amount_num == IF amount_match THEN 50 * (d.den - d.num) ELSE 0
    IN  (100 * amount_num + (35 * merchant_score + 15 * date_score) * d.den)
            \div (100 * d.den)

guard_rejects_below_60(mismatch, merchant_score) ==
    mismatch # 0 /\ merchant_score < 60

\* `if trans_has_merchant and not receipt_has_merchant: if merchant_score < 70:`
guard_rejects(mismatch, merchant_score) ==
    mismatch # 0 /\ merchant_score < 70

\* acceptance without an amount match from the configured threshold on
accepts_from_threshold(self, amount_match, merchant_score, date_score) ==
    /\ ~ amount_match
    /\ \/ merchant_score >= self.merchant_threshold /\ date_score >= 40
       \/ merchant_score >= 70 /\ date_score >= 20

\* the two `elif` branches of the acceptance: a pair without an amount match
\* is accepted on merchant and date, by the fixed cut-offs 60 and 70
accepts_without_amount(self, amount_match, merchant_score, date_score) ==
    /\ ~ amount_match
    /\ \/ merchant_score >= 60 /\ date_score >= 40
       \/ merchant_score >= 70 /\ date_score >= 20

\* str(x) of an optional string
Str(o) == IF o = None THEN S_None ELSE Val(o)

match_transaction_to_receipt(self, transaction, receipt, ratio) ==
    LET trans_desc == Upper(Str(Get(transaction, "description", Some(<<>>))))
        hit == exclude_hit(trans_desc)
    IN
    IF hit # 0
    THEN [is_match |-> FALSE, confidence |-> 0,
          details |-> [rejected_reason |->
                          <<"Bank fee/tax detected", exclude_keywords[hit]>>]]
    ELSE
    LET is_likely_currency_conversion ==
            \/ Contains(S_USD, trans_desc)
            \/ Contains(S_GBP, trans_desc)
            \/ Contains(S_FOREIGN, trans_desc)
        receipt_amount == Get(receipt, "amount", None)
        receipt_currency == Get(receipt, "currency", S_EUR)
        compared == /\ "amount" \in DOMAIN transaction
                    /\ receipt_amount # None
                    /\ Val(receipt_amount) # 0
        is_eur == IF compared /\ receipt_currency # S_EUR THEN FALSE
                  ELSE ~ is_likely_currency_conversion
        receipt_amount_eur ==
            IF receipt_currency # S_EUR
            THEN convert_currency_to_eur(Val(receipt_amount), receipt_currency)
            ELSE Val(receipt_amount)
        amount_result ==
            is_amount_match(self, transaction.amount, Some(receipt_amount_eur), is_eur)
        amount_match == IF compared THEN amount_result[1] ELSE FALSE
        amount_diff_percent == IF compared THEN amount_result[2] ELSE Frac(1, 1)
        conversion ==
            IF ~ compared THEN << >>
            ELSE IF receipt_currency # S_EUR
            THEN [receipt_currency |-> receipt_currency,
                  receipt_amount_original |-> Val(receipt_amount),
                  receipt_amount_converted |-> receipt_amount_eur,
                  conversion_rate |->
                      IF Val(receipt_amount) > 0
                      THEN Frac(receipt_amount_eur, Val(receipt_amount))
                      ELSE Frac(1, 1)]
            ELSE [receipt_currency |-> S_EUR]
        scored == /\ "description" \in DOMAIN transaction
                  /\ Get(receipt, "merchant", None) # None
                  /\ Val(receipt.merchant) # <<>>
        merchant_score ==
            IF scored
            THEN calculate_merchant_similarity(transaction.description,
                                               receipt.merchant, ratio)
            ELSE 0
        merchant_match == scored /\ merchant_score >= self.merchant_threshold
        dated == /\ Get(transaction, "date", None) # None
                 /\ Get(receipt, "date", None) # None
        days_diff == IF dated THEN Abs(Val(transaction.date) - Val(receipt.date))
                     ELSE 999
        date_score == IF dated THEN date_score_of(days_diff) ELSE 0
        without_amount ==
            accepts_without_amount(self, amount_match, merchant_score, date_score)
        accepted == amount_match \/ without_amount
        mismatch ==
            IF accepted
            THEN merchant_mismatch(Lower(Str(Get(transaction, "description", Some(<<>>)))),
                                   Lower(Str(Get(receipt, "merchant", Some(<<>>)))))
            ELSE 0
        rejected_by_guard == guard_rejects(mismatch, merchant_score)
        is_match == /\ accepted
                    /\ ~ rejected_by_guard
                    /\ graduated_accepts(merchant_score, amount_diff_percent)
        match_details ==
            (IF rejected_by_guard
             THEN [rejected_reason |->
                      <<"Merchant mismatch", specific_merchants[mismatch].name>>]
             ELSE << >>)
            @@ (IF without_amount THEN [matched_without_amount |-> TRUE] ELSE << >>)
            @@ conversion
            @@ [amount_match |-> amount_match,
                amount_diff_percent |-> amount_diff_percent,
                merchant_match |-> merchant_match,
                merchant_score |-> merchant_score,
                is_eur |-> ~ is_likely_currency_conversion,
                date_score |-> date_score,
                days_diff |-> days_diff]
    IN  [is_match |-> is_match,
         confidence |-> confidence_of(amount_match, amount_diff_percent,
                                      merchant_score, date_score),
         details |-> match_details]

-----------------------------------------------------------------------------
(* Inputs.                                                                 *)

\* descriptions that hit the bank-fee gate, in several letter cases
FeeDescriptions == {D_MwstUpper, D_MwstMixed, D_KontoLower, D_FeeSpotify}

OtherDescriptions == {D_Rewe, D_Unknown, D_Spotify, D_Amzn, D_Usd}

Merchants == {M_Rewe, M_Spotify}

\* the score of two strings of which neither contains the other: values on
\* both sides of every cut-off of the matcher
Scores == {0, 24, 25, 39, 40, 59, 60, 69, 70, 100}

Configs ==
    {ReceiptMatcher(DefaultToleranceEur, DefaultToleranceNonEur, DefaultMerchantThreshold),
     ReceiptMatcher(0, DefaultToleranceNonEur, DefaultMerchantThreshold)}

Day0 == 100

TransactionAmounts == {None, Some(Cents(1000)), Some(-Cents(1000)), Some(0)}

\* transactions: {date, amount, description}; the last two sets are a
\* transaction without a date and one without the amount key
PairTransactions ==
    [description : {Some(d) : d \in OtherDescriptions},
     amount : TransactionAmounts,
     date : {Some(Day0)}]
    \cup [description : {Some(d) : d \in FeeDescriptions},
          amount : {Some(Cents(1000))},
          date : {Some(Day0)}]
    \cup [description : {Some(D_Rewe), Some(D_Spotify)},
          amount : {Some(Cents(1000))},
          date : {None}]
    \cup [description : {Some(D_Rewe), Some(D_Spotify)}, date : {Some(Day0)}]

\* (amount, currency) of a receipt: the amount is None or lies in
\* [0.01, 999999] (extract_amount), the currency is EUR, GBP or USD
\* (detect_currency)
ReceiptMoney ==
    {<<None, S_EUR>>}
    \cup {<<Some(Cents(c)), S_EUR>> : c \in {1000, 1001, 1002, 1020, 1040, 1300, 950, 990}}
    \cup {<<Some(Cents(c)), S_USD>> : c \in {1000, 1040, 1087}}
    \cup {<<Some(Cents(c)), S_GBP>> : c \in {1000}}

ReceiptDates ==
    {None} \cup {Some(Day0 + d) : d \in {0, 7, 14, 21, 22, 30, 31}}

PairReceipts ==
    {[filename |-> "a.pdf", amount |-> m[1], currency |-> m[2],
      merchant |-> merchant, date |-> date] :
        m \in ReceiptMoney,
        merchant \in {None} \cup {Some(x) : x \in Merchants},
        date \in ReceiptDates}

NoCall == [op |-> "none"]

\* a ReceiptProcessor after __init__, on a folder without files
NoReceipts == [folder |-> <<>>, receipts |-> <<>>, results |-> <<>>, pc |-> "idle"]

\* PerformanceTracker.__init__: no metrics; `recorded` is the list of the
\* calls of record made so far, `asked` the argument of a call of get_stats
\* made after them and `stats` its result
PerformanceTracker ==
    [metrics |-> << >>, recorded |-> <<>>, asked |-> None, stats |-> << >>]

\* the object after __init__, before any call
Init ==
    /\ matcher \in Configs
    /\ partial_ratio \in [score : Scores]
    /\ pc = "idle"
    /\ call = NoCall
    /\ transactions = <<>>
    /\ receipts = <<>>
    /\ amount_frequency = << >>
    /\ results = <<>>
    /\ used_receipts = {}
    /\ i = 0
    /\ processor = NoReceipts
    /\ perf_tracker = PerformanceTracker

batch_vars == <<pc, transactions, receipts, amount_frequency, results, used_receipts, i>>

-----------------------------------------------------------------------------
(* A call of a pure method, on any arguments of the input sets.            *)

CallMatchTransactionToReceipt ==
    /\ pc = "idle"
    /\ call = NoCall
    /\ \E transaction \in PairTransactions, receipt \in PairReceipts :
          call' = [op |-> "match_transaction_to_receipt",
                   transaction |-> transaction,
                   receipt |-> receipt,
                   ret |-> match_transaction_to_receipt(matcher, transaction,
                                                        receipt, partial_ratio)]
    /\ UNCHANGED <<matcher, partial_ratio, batch_vars, processor, perf_tracker>>

AmountArguments ==
    {None, Some(0)}
    \cup {Some(Cents(c)) : c \in {10000, -10000, 10005, 10010, 10011, 10500, 9200, 8000}}

CallIsAmountMatch ==
    /\ pc = "idle"
    /\ call = NoCall
    /\ \E amount1 \in AmountArguments, amount2 \in AmountArguments, is_eur \in BOOLEAN :
          call' = [op |-> "is_amount_match",
                   amount1 |-> amount1,
                   amount2 |-> amount2,
                   is_eur |-> is_eur,
                   ret |-> is_amount_match(matcher, amount1, amount2, is_eur)]
    /\ UNCHANGED <<matcher, partial_ratio, batch_vars, processor, perf_tracker>>

-----------------------------------------------------------------------------
(* find_best_match and match_all_transactions.                             *)

NoBest == [best_match |-> None, best_confidence |-> 0, best_details |-> None]

is_better_or_equal(is_match, confidence, best_confidence) ==
    is_match /\ confidence >= best_confidence

\* the test of the scan: a later receipt replaces the best one so far
is_better(is_match, confidence, best_confidence) ==
    is_match /\ confidence > best_confidence

\* the body of the scan: the best match after receipt, evaluated as r
keep_better(receipt, r, best) ==
    IF is_better(r.is_match, r.confidence, best.best_confidence)
    THEN [best_match |-> Some(receipt),
          best_confidence |-> r.confidence,
          best_details |-> Some(r.details)]
    ELSE best

RECURSIVE scan_receipts(_, _, _, _, _, _)

\* the loop of find_best_match from the k-th receipt on
scan_receipts(self, transaction, pool, ratio, k, best) ==
    IF k > Len(pool) THEN best
    ELSE scan_receipts(self, transaction, pool, ratio, k + 1,
             keep_better(pool[k],
                         match_transaction_to_receipt(self, transaction, pool[k], ratio),
                         best))

\* `return (best_match, best_confidence, best_details) if best_match else None`
best_or_none(best) ==
    IF best.best_match # None
    THEN Some(<<Val(best.best_match), best.best_confidence, Val(best.best_details)>>)
    ELSE None

\* find_best_match: None or Some(<<receipt, confidence, details>>)
find_best_match(self, transaction, pool, ratio) ==
    best_or_none(scan_receipts(self, transaction, pool, ratio, 1, NoBest))

has_amount(trans) == "amount" \in DOMAIN trans /\ trans.amount # None

\* the amount frequency map: abs(float(amount)) -> number of transactions
build_amount_frequency(trans_list) ==
    LET counted == {k \in 1..Len(trans_list) : has_amount(trans_list[k])}
        keys == {Abs(Val(trans_list[k].amount)) : k \in counted}
    IN  [amount_key \in keys |->
            Cardinality({k \in counted : Abs(Val(trans_list[k].amount)) = amount_key})]

available_receipts_all(receipt_list, used) == receipt_list

\* the receipts whose filename is not used yet, in list order
available_receipts(receipt_list, used) ==
    SelectSeq(receipt_list, LAMBDA r : r.filename \notin used)

boost_applies_to_duplicates(transaction, details, frequency) ==
    /\ Get(details, "amount_match", FALSE)
    /\ FracLT(Get(details, "amount_diff_percent", Frac(1, 1)), Frac(1, 1000))

\* the condition of the exact amount boost
boost_applies(transaction, details, frequency) ==
    /\ Get(details, "amount_match", FALSE)
    /\ FracLT(Get(details, "amount_diff_percent", Frac(1, 1)), Frac(1, 1000))
    /\ LET trans_amount == Abs(Val(Get(transaction, "amount", Some(0))))
       IN  Get(frequency, trans_amount, 0) = 1

UniqueExactMatchBoost == 30

boosted_unclipped(confidence) == confidence + UniqueExactMatchBoost

\* confidence = min(100, confidence + 30)
boosted(confidence) == Min(100, confidence + UniqueExactMatchBoost)

base_result_one_based(index, transaction, matched) ==
    [transaction_index |-> index + 1, transaction |-> transaction, matched |-> matched]

\* result = {'transaction_index': i, 'transaction': transaction, 'matched': ...}
base_result(index, transaction, matched) ==
    [transaction_index |-> index, transaction |-> transaction, matched |-> matched]

\* the result dictionary of one transaction, given what find_best_match returned
make_result(index, transaction, match_result, frequency) ==
    LET result == base_result(index, transaction, match_result # None)
    IN  IF match_result = None THEN result
        ELSE LET receipt == Val(match_result)[1]
                 confidence == Val(match_result)[2]
                 details == Val(match_result)[3]
             IN  IF boost_applies(transaction, details, frequency)
                 THEN [receipt |-> receipt,
                       confidence |-> boosted(confidence),
                       match_details |->
                           [exact_amount_boost |-> TRUE,
                            boosted_confidence |-> <<confidence, boosted(confidence)>>]
                           @@ details]
                      @@ result
                 ELSE [receipt |-> receipt,
                       confidence |-> confidence,
                       match_details |-> details]
                      @@ result

\* the body of the loop of match_all_transactions
match_result_of(self, index, transaction, receipt_list, used, frequency, ratio) ==
    make_result(index, transaction,
                find_best_match(self, transaction,
                                available_receipts(receipt_list, used), ratio),
                frequency)

-----------------------------------------------------------------------------
(* The batch: match_all_transactions, one action per loop iteration.       *)

MaxTransactions == 2

MaxReceipts == 2

M_SpotifyPlain == <<"S","p","o","t","i","f","y">>

\* the scores a batch is run with
BatchScores == {0, 70}

BatchTransactions ==
    {[description |-> Some(D_Rewe), amount |-> Some(Cents(1000)), date |-> Some(Day0)],
     [description |-> Some(D_Unknown), amount |-> Some(-Cents(1000)), date |-> Some(Day0)],
     [description |-> Some(D_Spotify), amount |-> Some(-Cents(1001)), date |-> Some(Day0 + 7)],
     [description |-> Some(D_MwstMixed), amount |-> Some(Cents(1000)), date |-> Some(Day0)],
     [description |-> Some(D_Rewe), amount |-> None, date |-> Some(Day0)]}

BatchReceipts ==
    {[filename |-> "a.pdf", amount |-> Some(Cents(1000)), currency |-> S_EUR,
      merchant |-> Some(M_Rewe), date |-> Some(Day0)],
     [filename |-> "b.pdf", amount |-> Some(Cents(1000)), currency |-> S_EUR,
      merchant |-> Some(M_SpotifyPlain), date |-> Some(Day0)],
     [filename |-> "a.pdf", amount |-> Some(Cents(1001)), currency |-> S_EUR,
      merchant |-> Some(M_SpotifyPlain), date |-> Some(Day0)],
     [filename |-> "c.pdf", amount |-> None, currency |-> S_EUR,
      merchant |-> Some(M_Rewe), date |-> Some(Day0 + 7)]}

\* the sequences over S of length at most n
SeqUpTo(S, n) == UNION {[1..m -> S] : m \in 0..n}

\* the call and the code before the loop: the frequency map, results = [],
\* used_receipts = set()
StartBatch ==
    /\ pc = "idle"
    /\ call = NoCall
    /\ partial_ratio.score \in BatchScores
    /\ \E trans_list \in SeqUpTo(BatchTransactions, MaxTransactions),
          receipt_list \in SeqUpTo(BatchReceipts, MaxReceipts) :
          /\ transactions' = trans_list
          /\ receipts' = receipt_list
          /\ amount_frequency' = build_amount_frequency(trans_list)
    /\ results' = <<>>
    /\ used_receipts' = {}
    /\ i' = 0
    /\ pc' = "loop"
    /\ UNCHANGED <<matcher, partial_ratio, call, processor, perf_tracker>>

\* the iteration with `used_receipts = {receipt['filename']}`: the receipts
\* consumed before are released
MatchNextReleasing ==
    /\ pc = "loop"
    /\ i < Len(transactions)
    /\ results' = Append(results,
                         match_result_of(matcher, i, transactions[i + 1], receipts,
                                         used_receipts, amount_frequency, partial_ratio))
    /\ used_receipts' = IF results'[i + 1].matched
                        THEN {results'[i + 1].receipt.filename}
                        ELSE used_receipts
    /\ i' = i + 1
    /\ UNCHANGED <<matcher, partial_ratio, pc, call, transactions, receipts,
                   amount_frequency, processor, perf_tracker>>

\* one iteration of `for i, transaction in enumerate(transactions)`
MatchNext ==
    /\ pc = "loop"
    /\ i < Len(transactions)
    /\ results' = Append(results,
                         match_result_of(matcher, i, transactions[i + 1], receipts,
                                         used_receipts, amount_frequency, partial_ratio))
    /\ used_receipts' = IF results'[i + 1].matched
                        THEN used_receipts \cup {results'[i + 1].receipt.filename}
                        ELSE used_receipts
    /\ i' = i + 1
    /\ UNCHANGED <<matcher, partial_ratio, pc, call, transactions, receipts,
                   amount_frequency, processor, perf_tracker>>

\* return results
ReturnResults ==
    /\ pc = "loop"
    /\ i = Len(transactions)
    /\ pc' = "returned"
    /\ UNCHANGED <<matcher, partial_ratio, call, transactions, receipts,
                   amount_frequency, results, used_receipts, i, processor,
                   perf_tracker>>

\* the transactions of a second call: those of the first call again, or the
\* last of them alone
NextTransactions(trans_list) ==
    {trans_list}
    \cup {<<trans_list[k]>> : k \in {k \in 1..Len(trans_list) : k = Len(trans_list)}}

\* a second call with used_receipts kept from the first
StartNextBatchKeepingUsed ==
    /\ pc = "returned"
    /\ call = NoCall
    /\ call' = [op |-> "match_all_transactions",
                transactions |-> transactions,
                receipts |-> receipts,
                ret |-> results]
    /\ \E trans_list \in NextTransactions(transactions) :
          /\ transactions' = trans_list
          /\ amount_frequency' = build_amount_frequency(trans_list)
    /\ results' = <<>>
    /\ i' = 0
    /\ pc' = "loop"
    /\ UNCHANGED <<matcher, partial_ratio, receipts, used_receipts, processor,
                   perf_tracker>>

\* a second call of match_all_transactions on the same matcher, with the
\* receipt list of the first; `call` keeps the first call and what it returned
StartNextBatch ==
    /\ pc = "returned"
    /\ call = NoCall
    /\ call' = [op |-> "match_all_transactions",
                transactions |-> transactions,
                receipts |-> receipts,
                ret |-> results]
    /\ \E trans_list \in NextTransactions(transactions) :
          /\ transactions' = trans_list
          /\ amount_frequency' = build_amount_frequency(trans_list)
    /\ results' = <<>>
    /\ used_receipts' = {}
    /\ i' = 0
    /\ pc' = "loop"
    /\ UNCHANGED <<matcher, partial_ratio, receipts, processor, perf_tracker>>

\* two calls of match_all_transactions, one after the other
NextTwoBatches ==
    \/ StartBatch
    \/ MatchNext
    \/ ReturnResults
    \/ StartNextBatch

\* the calls of the pure methods
NextPair ==
    \/ CallMatchTransactionToReceipt
    \/ CallIsAmountMatch

\* the steps of match_all_transactions
NextBatch ==
    \/ StartBatch
    \/ MatchNext
    \/ ReturnResults

Next ==
    \/ CallMatchTransactionToReceipt
    \/ CallIsAmountMatch
    \/ StartBatch
    \/ MatchNext
    \/ ReturnResults

\* a matcher on which one method is called or one batch is run
Spec == Init /\ [][Next]_vars

\* a matcher with the default configuration
InitDefault ==
    /\ Init
    /\ matcher = ReceiptMatcher(DefaultToleranceEur, DefaultToleranceNonEur,
                                DefaultMerchantThreshold)

\* a matcher on which match_all_transactions is called twice
SpecTwoBatches == InitDefault /\ [][NextTwoBatches]_vars

\* a pair evaluation or a batch
NextThreshold ==
    \/ CallMatchTransactionToReceipt
    \/ StartBatch
    \/ MatchNext
    \/ ReturnResults

\* the default matcher, on which match_transaction_to_receipt or
\* match_all_transactions is called
SpecThreshold == InitDefault /\ [][NextThreshold]_vars

\* a matcher on which one of the pure methods is called
SpecPair == Init /\ [][NextPair]_vars

\* a matcher on which one batch is run
SpecBatch == Init /\ [][NextBatch]_vars

-----------------------------------------------------------------------------
(* The command line: main.match builds the matcher from its options.       *)

\* Config.validate, for the two matcher settings it looks at: the messages of
\* the ValueError it raises, none when it returns True
Config_validate(AMOUNT_TOLERANCE_EUR, MERCHANT_THRESHOLD) ==
    (IF AMOUNT_TOLERANCE_EUR < 0 \/ AMOUNT_TOLERANCE_EUR > TolScale
     THEN {"AMOUNT_TOLERANCE_EUR must be between 0 and 1"} ELSE {})
    \cup (IF MERCHANT_THRESHOLD < 0 \/ MERCHANT_THRESHOLD > 100
          THEN {"MERCHANT_THRESHOLD must be between 0 and 100"} ELSE {})

\* the values of --amount-tolerance and --amount-tolerance-non-eur: any float
\* (-0.001, 0, the two defaults, 1.5)
CliTolerances == {-10, 0, DefaultToleranceEur, DefaultToleranceNonEur, 15000}

\* matcher = ReceiptMatcher(amount_tolerance_percent=amount_tolerance,
\*                          amount_tolerance_non_eur=amount_tolerance_non_eur)
match_command(amount_tolerance, amount_tolerance_non_eur) ==
    ReceiptMatcher(amount_tolerance, amount_tolerance_non_eur, DefaultMerchantThreshold)

\* the matcher of the match command, before match_all_transactions is called
InitCli ==
    /\ matcher \in {match_command(e, n) :
                      e \in CliTolerances, n \in {DefaultToleranceNonEur, 15000}}
    /\ partial_ratio \in [score : BatchScores]
    /\ pc = "idle"
    /\ call = NoCall
    /\ transactions = <<>>
    /\ receipts = <<>>
    /\ amount_frequency = << >>
    /\ results = <<>>
    /\ used_receipts = {}
    /\ i = 0
    /\ processor = NoReceipts
    /\ perf_tracker = PerformanceTracker

\* the match command: the matcher built from the options runs one batch
SpecCli == InitCli /\ [][NextBatch]_vars

-----------------------------------------------------------------------------
(* generate_report.                                                        *)

RECURSIVE sum_confidence(_, _)

\* sum(r['confidence'] for r in match_results if r['matched']), from the k-th on
sum_confidence(match_results, k) ==
    IF k > Len(match_results) THEN 0
    ELSE (IF match_results[k].matched THEN match_results[k].confidence ELSE 0)
         + sum_confidence(match_results, k + 1)

\* sum(1 for r in match_results if r['matched'])
count_matched(match_results) ==
    Len(SelectSeq(match_results, LAMBDA r : r.matched))

\* the mean taken over all results, matched or not
generate_report_mean_over_all(match_results) ==
    LET total == Len(match_results)
        matched == count_matched(match_results)
    IN  [total_transactions |-> total,
         matched |-> matched,
         unmatched |-> total - matched,
         match_rate |-> IF total > 0 THEN Frac(matched * 100, total) ELSE Frac(0, 1),
         average_confidence |->
             IF matched > 0 THEN Frac(sum_confidence(match_results, 1), total)
             ELSE Frac(0, 1)]

\* generate_report: the two quotients are fractions
generate_report(match_results) ==
    LET total == Len(match_results)
        matched == count_matched(match_results)
    IN  [total_transactions |-> total,
         matched |-> matched,
         unmatched |-> total - matched,
         match_rate |-> IF total > 0 THEN Frac(matched * 100, total) ELSE Frac(0, 1),
         average_confidence |->
             IF matched > 0 THEN Frac(sum_confidence(match_results, 1), matched)
             ELSE Frac(0, 1)]

MaxResults == 4

\* match results as generate_report reads them: 'matched', and 'confidence'
\* when matched
ReportResults ==
    {[matched |-> FALSE]}
    \cup {[matched |-> TRUE, confidence |-> c] : c \in {21, 50, 100}}

\* a call of generate_report on any list of results
CallGenerateReport ==
    /\ pc = "idle"
    /\ call = NoCall
    /\ \E match_results \in SeqUpTo(ReportResults, MaxResults) :
          call' = [op |-> "generate_report",
                   match_results |-> match_results,
                   ret |-> generate_report(match_results)]
    /\ UNCHANGED <<matcher, partial_ratio, batch_vars, processor, perf_tracker>>

\* a matcher on which generate_report is called
SpecReport == Init /\ [][CallGenerateReport]_vars

-----------------------------------------------------------------------------
(* convert_currency_to_eur, called once and then on its own result.        *)

S_CHF == <<"C","H","F">>

S_usd == <<"u","s","d">>

\* currency codes: the three of the table and two that are not in it
Currencies == {S_EUR, S_GBP, S_USD, S_CHF, S_usd}

\* amounts in whole cents, 100.0 of the tests among them
ConvertAmounts ==
    {Cents(c) : c \in {0, 1, 50, 99, 100, 1000, 1087, 4484, 10000, -1000, -4484}}

\* convert_currency_to_eur(amount, currency)
CallConvertCurrencyToEur ==
    /\ pc = "idle"
    /\ call = NoCall
    /\ \E amount \in ConvertAmounts, currency \in Currencies :
          call' = [op |-> "convert_currency_to_eur",
                   amount |-> amount,
                   currency |-> currency,
                   ret |-> convert_currency_to_eur(amount, currency),
                   converted_from |-> None]
    /\ UNCHANGED <<matcher, partial_ratio, batch_vars, processor, perf_tracker>>

\* convert_currency_to_eur(converted, 'EUR') on the result of the call before
ConvertResultAsEur ==
    /\ pc = "idle"
    /\ call.op = "convert_currency_to_eur"
    /\ call.converted_from = None
    /\ call' = [op |-> "convert_currency_to_eur",
                amount |-> call.ret,
                currency |-> S_EUR,
                ret |-> convert_currency_to_eur(call.ret, S_EUR),
                converted_from |-> Some([amount |-> call.amount,
                                         currency |-> call.currency])]
    /\ UNCHANGED <<matcher, partial_ratio, batch_vars, processor, perf_tracker>>

NextConvert ==
    \/ CallConvertCurrencyToEur
    \/ ConvertResultAsEur

\* a matcher whose convert_currency_to_eur is called
SpecConvert == Init /\ [][NextConvert]_vars

-----------------------------------------------------------------------------
(* ReceiptProcessor.normalize_amount.                                      *)

S_german == <<"g","e","r","m","a","n">>

S_english == <<"e","n","g","l","i","s","h">>

S_GERMAN == <<"G","E","R","M","A","N">>

\* str.replace(old, new) for a one-character old
RECURSIVE str_replace(_, _, _)
str_replace(s, old, new) ==
    IF s = <<>> THEN <<>>
    ELSE (IF Head(s) = old THEN new ELSE <<Head(s)>>) \o str_replace(Tail(s), old, new)

\* the german branch without the removal of the thousands separator
normalize_amount_keeps_thousands(amount_str, number_format) ==
    IF number_format = S_german
    THEN str_replace(amount_str, ",", <<".">>)
    ELSE str_replace(amount_str, ",", <<>>)

\* normalize_amount(amount_str, number_format)
normalize_amount(amount_str, number_format) ==
    IF number_format = S_german
    THEN str_replace(str_replace(amount_str, ".", <<>>), ",", <<".">>)
    ELSE str_replace(amount_str, ",", <<>>)

A_German == <<"1",".","2","3","4",",","5","6">>

A_English == <<"1",",","2","3","4",".","5","6">>

AmountChars == {"1", ".", ","}

MaxAmountLen == 4

\* every string of digits and separators up to MaxAmountLen, and the two of
\* the docstring
AmountStrings ==
    UNION {[1..n -> AmountChars] : n \in 0..MaxAmountLen} \cup {A_German, A_English}

NumberFormats == {S_german, S_english, S_GERMAN}

\* normalize_amount(amount_str, number_format)
CallNormalizeAmount ==
    /\ pc = "idle"
    /\ call = NoCall
    /\ \E amount_str \in AmountStrings, number_format \in NumberFormats :
          call' = [op |-> "normalize_amount",
                   amount_str |-> amount_str,
                   number_format |-> number_format,
                   ret |-> normalize_amount(amount_str, number_format)]
    /\ UNCHANGED <<matcher, partial_ratio, batch_vars, processor, perf_tracker>>

SpecNormalize == Init /\ [][CallNormalizeAmount]_vars

-----------------------------------------------------------------------------
(* find_best_match on a pool of receipts, for tolerances from 0 to 1.      *)

\* tolerances at both ends of [0, 1] and the defaults
BestConfigs ==
    {ReceiptMatcher(e, n, DefaultMerchantThreshold) :
        e \in {0, DefaultToleranceEur, TolScale},
        n \in {DefaultToleranceNonEur, TolScale}}

BestScores == {0, 59, 60, 70}

BestTransactions ==
    [description : {Some(D_Rewe), Some(D_Unknown)},
     amount : {None, Some(Cents(1000))},
     date : {Some(Day0)}]
    \cup [description : {Some(D_MwstUpper)},
          amount : {Some(Cents(1000))},
          date : {Some(Day0)}]
    \cup [description : {Some(D_Rewe)},
          amount : {Some(Cents(1000))},
          date : {None}]

\* receipts from a perfect one to one whose amount differs by 99.9%
BestReceipts ==
    {[filename |-> "a.pdf", amount |-> Some(Cents(1000)), currency |-> S_EUR,
      merchant |-> Some(M_Rewe), date |-> Some(Day0)],
     [filename |-> "b.pdf", amount |-> Some(Cents(1)), currency |-> S_EUR,
      merchant |-> Some(M_Spotify), date |-> None],
     [filename |-> "c.pdf", amount |-> Some(Cents(1300)), currency |-> S_EUR,
      merchant |-> None, date |-> Some(Day0 + 31)],
     [filename |-> "d.pdf", amount |-> None, currency |-> S_EUR,
      merchant |-> Some(M_Spotify), date |-> Some(Day0 + 21)],
     [filename |-> "e.pdf", amount |-> Some(Cents(1040)), currency |-> S_USD,
      merchant |-> Some(M_Spotify), date |-> Some(Day0 + 7)],
     [filename |-> "f.pdf", amount |-> None, currency |-> S_EUR,
      merchant |-> None, date |-> None]}

MaxPool == 2

CallFindBestMatch ==
    /\ pc = "idle"
    /\ call = NoCall
    /\ \E transaction \in BestTransactions, pool \in SeqUpTo(BestReceipts, MaxPool) :
          call' = [op |-> "find_best_match",
                   transaction |-> transaction,
                   receipts |-> pool,
                   ret |-> find_best_match(matcher, transaction, pool, partial_ratio)]
    /\ UNCHANGED <<matcher, partial_ratio, batch_vars, processor, perf_tracker>>

\* a matcher of any of the tolerances, before any call
InitBest ==
    /\ matcher \in BestConfigs
    /\ partial_ratio \in [score : BestScores]
    /\ pc = "idle"
    /\ call = NoCall
    /\ transactions = <<>>
    /\ receipts = <<>>
    /\ amount_frequency = << >>
    /\ results = <<>>
    /\ used_receipts = {}
    /\ i = 0
    /\ processor = NoReceipts
    /\ perf_tracker = PerformanceTracker

\* a matcher on which find_best_match is called
SpecBest == InitBest /\ [][CallFindBestMatch]_vars

-----------------------------------------------------------------------------
(* ReceiptProcessor: the text of a receipt.                                *)
(*                                                                         *)
(* A text is a sequence of lines, joined by "\n". Every line is one of a   *)
(* few shapes, a fixed wording around one variable part (an amount string, *)
(* a date), and begins with a letter, so that no regular expression of the *)
(* extractors matches across two lines: re.findall on the text is the      *)
(* concatenation of its matches on the lines.                              *)

Digits == {"0", "1", "2", "3", "4", "5", "6", "7", "8", "9"}

Separators == {".", ","}

digit_value ==
    [c \in Digits |->
        CASE c = "0" -> 0 [] c = "1" -> 1 [] c = "2" -> 2 [] c = "3" -> 3
          [] c = "4" -> 4 [] c = "5" -> 5 [] c = "6" -> 6 [] c = "7" -> 7
          [] c = "8" -> 8 [] c = "9" -> 9]

\* the n characters of s from position p on exist and are digits: \d{n}
is_digits(s, p, n) ==
    /\ p + n - 1 <= Len(s)
    /\ \A k \in p..(p + n - 1) : s[k] \in Digits

\* the character of s at position p exists and is '.' or ',': [.,]
is_sep(s, p) == p <= Len(s) /\ s[p] \in Separators

\* the wordings of the lines, with the variable part left out
L_AmountPaid == <<"A","m","o","u","n","t"," ","p","a","i","d",":"," ">>

L_Total == <<"T","o","t","a","l",":"," ">>

L_Gesamtbetrag == <<"G","e","s","a","m","t","b","e","t","r","a","g",":"," ">>

L_EuroAfterSpace == <<" ","EURO-SIGN">>

L_BetragEuro ==
    <<"B","e","t","r","a","g"," ","(","E","u","r","o",","," ","C","e","n","t",")",":"," ">>

L_Preis == <<"P","r","e","i","s"," ">>

L_Euro == <<"EURO-SIGN">>

L_Paid == <<"P","a","i","d"," ">>

L_Today == <<" ","t","o","d","a","y">>

\* what re.findall returns for the pattern without a group, 'betrag[:\s]*\((?:euro|eur)'
L_BetragEuroMatch == <<"B","e","t","r","a","g"," ","(","E","u","r","o">>

L_PaidOn == <<"P","a","i","d"," ","o","n",":"," ">>

L_Datum == <<"D","a","t","u","m",":"," ">>

L_Company == <<"R","E","W","E"," ","M","a","r","k","t"," ","G","m","b","H">>

L_Empfaenger == <<"E","m","p","f","a-umlaut","n","g","e","r",":"," ">>

L_Recipient == <<"M","a","x"," ","M","u","s","t","e","r","m","a","n","n">>

L_AusgestelltVon == <<"A","u","s","g","e","s","t","e","l","l","t"," ","v","o","n",":"," ">>

L_IssuedBy == <<"H","o","f","l","a","d","e","n"," ","B","e","r","g">>

L_IssuedByAddress == <<" ","1","2",","," ","B","o","n","n">>

\* the month names of the patterns of extract_date, as they are written
EnglishMonths ==
    << <<"J","a","n","u","a","r","y">>,
       <<"F","e","b","r","u","a","r","y">>,
       <<"M","a","r","c","h">>,
       <<"A","p","r","i","l">>,
       <<"M","a","y">>,
       <<"J","u","n","e">>,
       <<"J","u","l","y">>,
       <<"A","u","g","u","s","t">>,
       <<"S","e","p","t","e","m","b","e","r">>,
       <<"O","c","t","o","b","e","r">>,
       <<"N","o","v","e","m","b","e","r">>,
       <<"D","e","c","e","m","b","e","r">> >>

GermanMonths ==
    << <<"J","a","n","u","a","r">>,
       <<"F","e","b","r","u","a","r">>,
       <<"M","a-umlaut","r","z">>,
       <<"A","p","r","i","l">>,
       <<"M","a","i">>,
       <<"J","u","n","i">>,
       <<"J","u","l","i">>,
       <<"A","u","g","u","s","t">>,
       <<"S","e","p","t","e","m","b","e","r">>,
       <<"O","k","t","o","b","e","r">>,
       <<"N","o","v","e","m","b","e","r">>,
       <<"D","e","z","e","m","b","e","r">> >>

digit_char == <<"0", "1", "2", "3", "4", "5", "6", "7", "8", "9">>

\* a natural number in decimal notation
RECURSIVE decimal_digits(_)
decimal_digits(n) ==
    IF n < 10 THEN <<digit_char[n + 1]>>
    ELSE decimal_digits(n \div 10) \o <<digit_char[(n % 10) + 1]>>

\* a number below 100 with two digits
two_digits(n) == <<digit_char[(n \div 10) + 1], digit_char[(n % 10) + 1]>>

\* the line of a text as a string
line_text(line) ==
    CASE line.kind = "amount_paid" -> L_AmountPaid \o line.amount
      [] line.kind = "total" -> L_Total \o line.amount
      [] line.kind = "gesamtbetrag" -> L_Gesamtbetrag \o line.amount \o L_EuroAfterSpace
      [] line.kind = "betrag_euro" -> L_BetragEuro \o line.amount
      [] line.kind = "attached" -> L_Preis \o line.amount \o L_Euro
      [] line.kind = "symbol" -> L_Paid \o L_Euro \o line.amount \o L_Today
      [] line.kind = "paid_on" ->
            L_PaidOn \o EnglishMonths[line.date.month] \o <<" ">>
                \o decimal_digits(line.date.day) \o <<",", " ">> \o decimal_digits(line.date.year)
      [] line.kind = "numeric" ->
            L_Datum \o two_digits(line.date.day) \o <<".">>
                \o two_digits(line.date.month) \o <<".">> \o decimal_digits(line.date.year)
      [] line.kind = "german_month" ->
            L_Datum \o decimal_digits(line.date.day) \o <<".", " ">>
                \o GermanMonths[line.date.month] \o <<" ">> \o decimal_digits(line.date.year)
      [] line.kind = "company" -> L_Company
      [] line.kind = "recipient" -> L_Empfaenger \o L_Recipient
      [] line.kind = "issued_by" -> L_AusgestelltVon \o L_IssuedBy \o L_IssuedByAddress
      [] line.kind = "empty" -> <<>>

-----------------------------------------------------------------------------
(* detect_number_format                                                    *)

\* the ways r'\d{1,3}[.,]\d{2,3}(?:[.,]\d{2})?' can match, in the order the
\* greedy quantifiers try them
number_shapes ==
    << [n1 |-> 3, n2 |-> 3, g |-> TRUE], [n1 |-> 3, n2 |-> 3, g |-> FALSE],
       [n1 |-> 3, n2 |-> 2, g |-> TRUE], [n1 |-> 3, n2 |-> 2, g |-> FALSE],
       [n1 |-> 2, n2 |-> 3, g |-> TRUE], [n1 |-> 2, n2 |-> 3, g |-> FALSE],
       [n1 |-> 2, n2 |-> 2, g |-> TRUE], [n1 |-> 2, n2 |-> 2, g |-> FALSE],
       [n1 |-> 1, n2 |-> 3, g |-> TRUE], [n1 |-> 1, n2 |-> 3, g |-> FALSE],
       [n1 |-> 1, n2 |-> 2, g |-> TRUE], [n1 |-> 1, n2 |-> 2, g |-> FALSE] >>

shape_matches(s, p, sh) ==
    /\ is_digits(s, p, sh.n1)
    /\ is_sep(s, p + sh.n1)
    /\ is_digits(s, p + sh.n1 + 1, sh.n2)
    /\ sh.g => /\ is_sep(s, p + sh.n1 + 1 + sh.n2)
               /\ is_digits(s, p + sh.n1 + sh.n2 + 2, 2)

shape_length(sh) == sh.n1 + 1 + sh.n2 + (IF sh.g THEN 3 ELSE 0)

\* the length of the match of the number pattern at position p of s, 0 when
\* there is none
number_match_length(s, p) ==
    LET fitting == {k \in 1..Len(number_shapes) : shape_matches(s, p, number_shapes[k])}
    IN  IF fitting = {} THEN 0
        ELSE shape_length(number_shapes[CHOOSE k \in fitting : \A j \in fitting : k <= j])

\* re.findall of the number pattern on s, from position p on
RECURSIVE find_numbers(_, _)
find_numbers(s, p) ==
    IF p > Len(s) THEN <<>>
    ELSE LET n == number_match_length(s, p)
         IN  IF n > 0
             THEN <<SubSeq(s, p, p + n - 1)>> \o find_numbers(s, p + n)
             ELSE find_numbers(s, p + 1)

\* the number of digits at the beginning of s
leading_digits(s) ==
    CHOOSE n \in 0..Len(s) :
        /\ is_digits(s, 1, n)
        /\ n < Len(s) => s[n + 1] \notin Digits

\* re.match(r'\d+\.\d{3},\d{2}', num) and re.match(r'\d+,\d{3}\.\d{2}', num),
\* with thousands and decimal the two separators
is_thousands_format(num, thousands, decimal) ==
    LET n == leading_digits(num) IN
    /\ n >= 1
    /\ n + 1 <= Len(num) /\ num[n + 1] = thousands
    /\ is_digits(num, n + 2, 3)
    /\ n + 5 <= Len(num) /\ num[n + 5] = decimal
    /\ is_digits(num, n + 6, 2)

\* re.match(r'^\d{1,3},\d{2}$', num) and re.match(r'^\d{1,3}\.\d{2}$', num)
is_decimal_format(num, decimal) ==
    LET n == leading_digits(num) IN
    /\ n \in 1..3
    /\ Len(num) = n + 3
    /\ num[n + 1] = decimal
    /\ is_digits(num, n + 2, 2)

\* what one number adds to german_indicators and english_indicators
indicators_of(num) ==
    IF is_thousands_format(num, ".", ",") THEN [german |-> 2, english |-> 0]
    ELSE IF is_thousands_format(num, ",", ".") THEN [german |-> 0, english |-> 2]
    ELSE IF is_decimal_format(num, ",") THEN [german |-> 1, english |-> 0]
    ELSE IF is_decimal_format(num, ".") THEN [german |-> 0, english |-> 1]
    ELSE [german |-> 0, english |-> 0]

RECURSIVE count_indicators(_)
count_indicators(numbers) ==
    IF numbers = <<>> THEN [german |-> 0, english |-> 0]
    ELSE LET head == indicators_of(Head(numbers))
             rest == count_indicators(Tail(numbers))
         IN  [german |-> head.german + rest.german,
              english |-> head.english + rest.english]

\* re.findall of the number pattern on the text
RECURSIVE text_numbers(_)
text_numbers(text) ==
    IF text = <<>> THEN <<>>
    ELSE find_numbers(line_text(Head(text)), 1) \o text_numbers(Tail(text))

S_EUR_SIGN == <<"EURO-SIGN">>

\* '€' in text or 'EUR' in text.upper()
has_euro_marker(text) ==
    \E k \in 1..Len(text) :
        \/ Contains(S_EUR_SIGN, line_text(text[k]))
        \/ Contains(S_EUR, Upper(line_text(text[k])))

\* detect_number_format(text)
detect_number_format(text) ==
    LET counted == count_indicators(text_numbers(text))
        german_indicators == counted.german + (IF has_euro_marker(text) THEN 1 ELSE 0)
        english_indicators == counted.english
    IN  IF german_indicators > english_indicators THEN S_german ELSE S_english

-----------------------------------------------------------------------------
(* extract_amount                                                          *)

\* the number of entries of the list patterns
AmountPatterns == 20

\* the longest end of the amount string a that has the form \d+(?:[.,]\d+)?:
\* what r'(\d+(?:[.,]\d+)?)[€\$£]' captures when the symbol follows a
number_before_symbol(a) ==
    LET is_number(p) ==
            /\ a[p] \in Digits
            /\ a[Len(a)] \in Digits
            /\ \A k \in p..Len(a) : a[k] \in Digits \cup Separators
            /\ Cardinality({k \in p..Len(a) : a[k] \in Separators}) <= 1
        starts == {p \in 1..Len(a) : is_number(p)}
    IN  IF starts = {} THEN <<>>
        ELSE <<SubSeq(a, CHOOSE p \in starts : \A q \in starts : p <= q, Len(a))>>

\* re.findall(patterns[pattern], line, re.IGNORECASE) for one line of a text;
\* the patterns are numbered from 1 in the order of the list
line_findall(pattern, line) ==
    CASE line.kind = "amount_paid" /\ pattern = 1 -> <<line.amount>>
      [] line.kind = "gesamtbetrag" /\ pattern \in {5, 13} -> <<line.amount>>
      [] line.kind = "total" /\ pattern = 14 -> <<line.amount>>
      [] line.kind = "betrag_euro" /\ pattern = 15 -> <<L_BetragEuroMatch>>
      [] line.kind = "attached" /\ pattern = 18 -> number_before_symbol(line.amount)
      [] line.kind = "symbol" /\ pattern = 20 -> <<line.amount>>
      [] OTHER -> <<>>

\* re.findall(patterns[pattern], text, re.IGNORECASE)
RECURSIVE findall(_, _)
findall(pattern, text) ==
    IF text = <<>> THEN <<>>
    ELSE line_findall(pattern, Head(text)) \o findall(pattern, Tail(text))

\* re.match(r'[\d.,]+$', amount_str)
looks_like_amount(amount_str) ==
    /\ amount_str # <<>>
    /\ \A k \in 1..Len(amount_str) : amount_str[k] \in Digits \cup Separators

\* int() of a string of digits
RECURSIVE int_of(_)
int_of(ds) ==
    IF ds = <<>> THEN 0
    ELSE int_of(SubSeq(ds, 1, Len(ds) - 1)) * 10 + digit_value[ds[Len(ds)]]

RECURSIVE power_of_ten(_)
power_of_ten(k) == IF k = 0 THEN 1 ELSE 10 * power_of_ten(k - 1)

\* float(s) for a string of digits and periods: None for a ValueError, else
\* the number as an exact fraction
to_float(s) ==
    LET dots == {k \in 1..Len(s) : s[k] = "."}
        digits == SelectSeq(s, LAMBDA c : c # ".")
    IN  IF Cardinality(dots) > 1 \/ digits = <<>>
             \/ \E k \in 1..Len(digits) : digits[k] \notin Digits
        THEN None
        ELSE LET decimals == IF dots = {} THEN 0
                             ELSE Len(s) - (CHOOSE k \in dots : TRUE)
             IN  Some(Frac(int_of(digits), power_of_ten(decimals)))

\* 0.01 <= amount <= 999999, for an amount that is not negative; written with
\* the whole part of the fraction, so that no product leaves the integers of
\* the model
in_amount_range(amount) ==
    /\ amount.num >= amount.den \/ amount.num * 100 >= amount.den
    /\ \/ amount.num \div amount.den < 999999
       \/ amount.num \div amount.den = 999999 /\ amount.num % amount.den = 0

\* the valid amount of one match, None when the match is skipped
valid_amount(match, number_format) ==
    LET amount_str == Strip(match) IN
    IF ~ looks_like_amount(amount_str) THEN None
    ELSE LET amount == to_float(normalize_amount(amount_str, number_format))
         IN  IF amount # None /\ in_amount_range(Val(amount)) THEN amount ELSE None

\* the list valid_amounts of the matches of one pattern, the zero amounts
\* filtered out when there are others
RECURSIVE collect_valid_amounts(_, _)
collect_valid_amounts(matches, number_format) ==
    IF matches = <<>> THEN <<>>
    ELSE valid_amount(Head(matches), number_format)
            \o collect_valid_amounts(Tail(matches), number_format)

valid_amounts_of(matches, number_format) ==
    LET valid_amounts == collect_valid_amounts(matches, number_format)
        non_zero == SelectSeq(valid_amounts, LAMBDA a : a.num > 0)
    IN  IF non_zero # <<>> THEN non_zero ELSE valid_amounts

\* the loop over patterns, from the pattern numbered p on, stopping at the
\* first valid candidate instead of the last
RECURSIVE search_patterns_first_candidate(_, _, _)
search_patterns_first_candidate(text, number_format, p) ==
    IF p > AmountPatterns THEN None
    ELSE LET valid_amounts == valid_amounts_of(findall(p, text), number_format)
         IN  IF valid_amounts # <<>>
             THEN Some(valid_amounts[1])
             ELSE search_patterns_first_candidate(text, number_format, p + 1)

\* the loop over patterns, from the pattern numbered p on
RECURSIVE search_patterns(_, _, _)
search_patterns(text, number_format, p) ==
    IF p > AmountPatterns THEN None
    ELSE LET valid_amounts == valid_amounts_of(findall(p, text), number_format)
         IN  IF valid_amounts # <<>>
             THEN Some(valid_amounts[Len(valid_amounts)])
             ELSE search_patterns(text, number_format, p + 1)

\* extract_amount(text)
extract_amount(text) == search_patterns(text, detect_number_format(text), 1)

\* amount strings
A_1250_German == <<"1","2",",","5","0">>

A_1250_English == <<"1","2",".","5","0">>

A_Zero == <<"0",",","0","0">>

A_Cent == <<"0",",","0","1">>

A_Million == <<"1","0","0","0","0","0","0">>

A_Max == <<"9","9","9","9","9","9">>

A_TwoPeriods == <<"1",".","2",".","3">>

A_Five == <<"5">>

\* the lines a receipt text is made of in the calls of extract_amount
AmountLines ==
    {[kind |-> "amount_paid", amount |-> a] : a \in {A_1250_English, A_Zero}}
    \cup {[kind |-> "total", amount |-> a] : a \in {A_1250_German, A_English, A_Million}}
    \cup {[kind |-> "gesamtbetrag", amount |-> a] : a \in {A_German, A_Zero, A_Max}}
    \cup {[kind |-> "betrag_euro", amount |-> a] : a \in {A_Five}}
    \cup {[kind |-> "attached", amount |-> a] : a \in {A_German, A_1250_German}}
    \cup {[kind |-> "symbol", amount |-> a] : a \in {A_Cent, A_TwoPeriods}}

\* the number of lines of a text in the calls of extract_amount
MaxAmountLines == 3

\* a process that uses the ReceiptProcessor only: the matcher stays in its
\* default configuration and is never called
InitProcessor ==
    /\ Init
    /\ matcher = ReceiptMatcher(DefaultToleranceEur, DefaultToleranceNonEur,
                                DefaultMerchantThreshold)
    /\ partial_ratio = [score |-> 0]

\* extract_amount(text)
CallExtractAmount ==
    /\ pc = "idle"
    /\ call = NoCall
    /\ \E text \in SeqUpTo(AmountLines, MaxAmountLines) :
          call' = [op |-> "extract_amount",
                   text |-> text,
                   number_format |-> detect_number_format(text),
                   ret |-> extract_amount(text)]
    /\ UNCHANGED <<matcher, partial_ratio, batch_vars, processor, perf_tracker>>

SpecExtractAmount == InitProcessor /\ [][CallExtractAmount]_vars

-----------------------------------------------------------------------------
(* extract_date                                                            *)
(*                                                                         *)
(* A date is [year, month, day]; the parsed dates have the time 00:00, so  *)
(* parsed_date > datetime.now() says that the date is after the day of the *)
(* call. The date strings that the patterns match are kept as the form     *)
(* they are written in and the numbers written: "december 13, 2026" is     *)
(* [form |-> "english", date |-> [year |-> 2026, month |-> 12, day |-> 13]]*)

date_after(a, b) ==
    \/ a.year > b.year
    \/ a.year = b.year /\ a.month > b.month
    \/ a.year = b.year /\ a.month = b.month /\ a.day > b.day

\* parsed_date.replace(year=y), for a date that is not the 29th of February
replace_year(d, y) == [d EXCEPT !.year = y]

\* the numbers of entries of priority_patterns and of date_patterns
PriorityPatterns == 4

DatePatterns == 6

\* re.findall(priority_patterns[pattern], line.lower(), re.IGNORECASE)
priority_line_findall(pattern, line) ==
    IF line.kind = "paid_on" /\ pattern = 2
    THEN <<[form |-> "english", date |-> line.date]>>
    ELSE <<>>

\* re.findall(date_patterns[pattern], line.lower(), re.IGNORECASE)
date_line_findall(pattern, line) ==
    CASE line.kind = "paid_on" /\ pattern \in {3, 4} ->
            <<[form |-> "english", date |-> line.date]>>
      [] line.kind = "german_month" /\ pattern = 2 ->
            <<[form |-> "german", date |-> line.date]>>
      [] line.kind = "numeric" /\ pattern = 5 ->
            <<[form |-> "numeric", date |-> line.date]>>
      [] OTHER -> <<>>

RECURSIVE priority_findall(_, _)
priority_findall(pattern, text) ==
    IF text = <<>> THEN <<>>
    ELSE priority_line_findall(pattern, Head(text)) \o priority_findall(pattern, Tail(text))

RECURSIVE date_findall(_, _)
date_findall(pattern, text) ==
    IF text = <<>> THEN <<>>
    ELSE date_line_findall(pattern, Head(text)) \o date_findall(pattern, Tail(text))

\* dateutil.parser.parse(date_str, fuzzy=False, dayfirst=True): the date for
\* an English month name and for DD.MM.YYYY, None for the ParserError that a
\* German month name raises
date_parser_parse(date_str) ==
    IF date_str.form = "german" THEN None ELSE Some(date_str.date)

\* lines 343-349: the first match of a priority pattern
accept_priority(date_str, now) ==
    LET parsed_date == date_parser_parse(date_str)
    IN  IF parsed_date # None /\ Val(parsed_date).year <= now.year + 1
        THEN parsed_date
        ELSE None

\* the loop over priority_patterns, from the pattern numbered p on
RECURSIVE search_priority_patterns(_, _, _)
search_priority_patterns(text, now, p) ==
    IF p > PriorityPatterns THEN None
    ELSE LET matches == priority_findall(p, text)
             found == IF matches = <<>> THEN None ELSE accept_priority(matches[1], now)
         IN  IF found # None THEN found
             ELSE search_priority_patterns(text, now, p + 1)

\* lines 387-392: years read wrongly
fix_ocr_year(parsed_date) ==
    IF parsed_date.year >= 2029 THEN replace_year(parsed_date, 2025)
    ELSE IF parsed_date.year = 2028 THEN replace_year(parsed_date, 2025)
    ELSE IF parsed_date.year = 2027 THEN replace_year(parsed_date, 2025)
    ELSE parsed_date

\* lines 396-402: a date in the future is moved back by one year, and by
\* another one if it is still in the future
move_back(parsed_date, now) ==
    IF date_after(parsed_date, now)
    THEN LET once == replace_year(parsed_date, parsed_date.year - 1)
         IN  IF date_after(once, now) THEN replace_year(once, once.year - 1) ELSE once
    ELSE parsed_date

\* the handler of lines 407-432: "10. Dezember 2026" read with german_months;
\* on the strings of this form the handler always returns, and the strptime
\* formats after it are not reached
parse_german_date(date_str, now) ==
    LET parsed == date_str.date
        capped == IF parsed.year > now.year + 1 THEN replace_year(parsed, now.year)
                  ELSE parsed
    IN  IF capped.year <= now.year + 1 THEN Some(capped) ELSE None

\* lines 371-432: the first match of a fallback pattern
accept_date(date_str, now) ==
    LET parsed_date == date_parser_parse(date_str)
    IN  IF parsed_date # None
        THEN LET moved == move_back(fix_ocr_year(Val(parsed_date)), now)
             IN  IF moved.year <= now.year + 1 THEN Some(moved) ELSE None
        ELSE parse_german_date(date_str, now)

\* the loop over date_patterns, from the pattern numbered p on
RECURSIVE search_date_patterns(_, _, _)
search_date_patterns(text, now, p) ==
    IF p > DatePatterns THEN None
    ELSE LET matches == date_findall(p, text)
             found == IF matches = <<>> THEN None ELSE accept_date(matches[1], now)
         IN  IF found # None THEN found
             ELSE search_date_patterns(text, now, p + 1)

\* extract_date(text), called on the day now
extract_date(text, now) ==
    LET by_keyword == search_priority_patterns(text, now, 1)
    IN  IF by_keyword # None THEN by_keyword
        ELSE search_date_patterns(text, now, 1)

Date(y, m, d) == [year |-> y, month |-> m, day |-> d]

\* the lines with a date
DateLines ==
    {[kind |-> "paid_on", date |-> d] :
        d \in {Date(2026, 12, 13), Date(2026, 5, 5), Date(2030, 12, 13)}}
    \cup {[kind |-> "numeric", date |-> d] :
        d \in {Date(2026, 12, 13), Date(2027, 5, 5), Date(2030, 5, 5), Date(2025, 5, 5)}}
    \cup {[kind |-> "german_month", date |-> d] :
        d \in {Date(2026, 12, 13), Date(2030, 5, 5), Date(2026, 5, 5)}}

\* the days of the calls
Nows == {Date(2025, 6, 15), Date(2026, 11, 2), Date(2026, 12, 14), Date(2027, 3, 1)}

\* the number of lines of a text in the calls of extract_date
MaxDateLines == 2

\* extract_date(text), on the day now
CallExtractDate ==
    /\ pc = "idle"
    /\ call = NoCall
    /\ \E text \in SeqUpTo(DateLines, MaxDateLines), now \in Nows :
          call' = [op |-> "extract_date",
                   text |-> text,
                   now |-> now,
                   ret |-> extract_date(text, now)]
    /\ UNCHANGED <<matcher, partial_ratio, batch_vars, processor, perf_tracker>>

SpecExtractDate == InitProcessor /\ [][CallExtractDate]_vars

-----------------------------------------------------------------------------
(* extract_merchant                                                        *)
(*                                                                         *)
(* Of the lines of a text, "REWE Markt GmbH" alone consists of letters and *)
(* blanks and names a company form; no line holds a tax number, an e-mail  *)
(* address, a URL, a UUID or the words "bill to", and the branches of the  *)
(* code for these are left out.                                            *)

starts_with(s, prefix) ==
    Len(s) >= Len(prefix) /\ SubSeq(s, 1, Len(prefix)) = prefix

\* the part of s before the first character of the set stop
before_first(s, stop) ==
    LET at == {k \in 1..Len(s) : s[k] \in stop}
    IN  IF at = {} THEN s
        ELSE SubSeq(s, 1, (CHOOSE k \in at : \A j \in at : k <= j) - 1)

\* re.split(r'\s+\d', s)[0]: the part of s before the first run of blanks
\* that a digit follows
before_number(s) ==
    LET at == {k \in 1..Len(s) :
                  /\ s[k] = " "
                  /\ \E q \in (k + 1)..Len(s) :
                        /\ s[q] \in Digits
                        /\ \A j \in k..(q - 1) : s[j] = " "}
    IN  IF at = {} THEN s
        ELSE SubSeq(s, 1, (CHOOSE k \in at : \A j \in at : k <= j) - 1)

L_Verwendungs == <<"V","e","r","w","e","n","d","u","n","g","s">>

L_Grund == <<"G","r","u","n","d">>

\* lines 477-482: the text after "Empfaenger:" in the first line that has it
eigenbeleg_recipient(text) ==
    LET at == {k \in 1..Len(text) : text[k].kind = "recipient"}
    IN  IF at = {} THEN None
        ELSE LET line == line_text(text[CHOOSE k \in at : \A j \in at : k <= j])
                 recipient == Strip(SubSeq(line, Len(L_Empfaenger) + 1, Len(line)))
             IN  IF /\ recipient # <<>>
                    /\ Len(recipient) > 2
                    /\ ~ starts_with(recipient, L_Verwendungs)
                    /\ ~ starts_with(recipient, L_Grund)
                 THEN Some(recipient)
                 ELSE None

\* lines 485-493: the text after "Ausgestellt von:" up to the first comma,
\* without what follows the name from the first number on
issued_by_merchant(text) ==
    LET at == {k \in 1..Len(text) : text[k].kind = "issued_by"}
    IN  IF at = {} THEN None
        ELSE LET line == line_text(text[CHOOSE k \in at : \A j \in at : k <= j])
                 group == before_first(SubSeq(line, Len(L_AusgestelltVon) + 1, Len(line)), {","})
                 merchant == Strip(before_number(Strip(group)))
             IN  IF merchant # <<>> /\ Len(merchant) > 2 THEN Some(merchant) ELSE None

\* n company lines one after the other as gmbh_pattern captures them, the
\* line ends replaced by blanks: ' '.join(clean_match.split())
RECURSIVE joined_companies(_)
joined_companies(n) ==
    IF n = 1 THEN L_Company ELSE L_Company \o <<" ">> \o joined_companies(n - 1)

\* the last of the company lines that follow one another from line k on
company_run_end(text, k) ==
    CHOOSE j \in k..Len(text) :
        /\ \A o \in k..j : text[o].kind = "company"
        /\ j < Len(text) => text[j + 1].kind # "company"

\* re.findall(gmbh_pattern, text) from line k on, each match cleaned: the
\* pattern runs over company lines that follow one another and ends at the
\* last of them that a line end follows
RECURSIVE gmbh_matches(_, _)
gmbh_matches(text, k) ==
    IF k > Len(text) THEN <<>>
    ELSE IF text[k].kind # "company" THEN gmbh_matches(text, k + 1)
    ELSE LET run == company_run_end(text, k)
             j == IF run < Len(text) THEN run ELSE run - 1
         IN  IF j >= k
             THEN <<joined_companies(j - k + 1)>> \o gmbh_matches(text, j + 1)
             ELSE gmbh_matches(text, k + 1)

\* lines 505-514: the first match of reasonable length
gmbh_merchant(text) ==
    LET matches == gmbh_matches(text, 1)
        fine == {k \in 1..Len(matches) : 3 < Len(matches[k]) /\ Len(matches[k]) < 50}
    IN  IF fine = {} THEN None
        ELSE Some(matches[CHOOSE k \in fine : \A j \in fine : k <= j])

\* the number of lines the two passes look at
MerchantLinesRead == 10

\* lines 517-543: the first of the first ten lines that names a company form
first_pass_merchant(text) ==
    LET at == {k \in 1..Min(Len(text), MerchantLinesRead) : text[k].kind = "company"}
    IN  IF at = {} THEN None
        ELSE Some(Strip(line_text(text[CHOOSE k \in at : \A j \in at : k <= j])))

skip_words ==
    { <<"r","e","c","e","i","p","t">>, <<"i","n","v","o","i","c","e">>, <<"b","i","l","l">>,
      <<"s","t","a","t","e","m","e","n","t">>, <<"o","r","d","e","r">>, <<"c","o","n","f","i","r","m","a","t","i","o","n">>,
      <<"e","i","g","e","n","b","e","l","e","g">>, <<"r","e","c","h","n","u","n","g">>, <<"r","e","c","h","n","u","n","g","s","b","e","l","e","g">>,
      <<"p","a","y","m","e","n","t">>, <<"d","o","c","u","m","e","n","t">>, <<"a","r","t","i","k","e","l">>,
      <<"i","t","e","m">>, <<"i","t","e","m","s">>, <<"z","a","h","l","u","n","g","s","m","e","t","h","o","d","e">>,
      <<"p","a","y","m","e","n","t"," ","m","e","t","h","o","d">> }

skip_prefixes ==
    { <<"i","n","v","o","i","c","e">>, <<"d","a","t","e">>, <<"n","u","m","b","e","r">>, <<"b","i","l","l">>,
      <<"p","a","i","d">>, <<"o","r","d","e","r">>, <<"r","e","f">>, <<"p","e","r","i","o","d">>,
      <<"t","y","p","e">>, <<"p","r","o","f","i","l","e">>, <<"r","e","c","h","n","u","n","g","s","n","u","m","m","e","r">>, <<"d","a","t","u","m">> }

skip_starts ==
    { <<"I","n","v","o","i","c","e">>, <<"D","a","t","e">>, <<"N","u","m","b","e","r">>, <<"P","e","r","i","o","d">>, <<"T","y","p","e">> }

\* re.match(r'^[\d\s\-\.:]+$', line)
only_numbers(line) ==
    line # <<>> /\ \A k \in 1..Len(line) : line[k] \in Digits \cup {" ", "-", ".", ":"}

\* re.match(r'^[A-Z\s]+$', line) and len(line.split()) <= 3
is_header_field(line) ==
    /\ line # <<>>
    /\ \A k \in 1..Len(line) :
          line[k] = " " \/ \E n \in 1..26 : UpperLetters[n] = line[k]
    /\ Cardinality({k \in 1..Len(line) :
                        line[k] # " " /\ (k = 1 \/ line[k - 1] = " ")}) <= 3

\* lines 546-584: the stripped line is returned by the second pass
is_substantial_line(line) ==
    /\ Len(line) >= 3
    /\ Lower(line) \notin skip_words
    /\ ~ only_numbers(line)
    /\ ~ is_header_field(line)
    /\ \A prefix \in skip_prefixes : ~ starts_with(Lower(line), prefix)
    /\ Len(line) > 5
    /\ \A prefix \in skip_starts : ~ starts_with(line, prefix)

\* lines 546-586: the first substantial line among the first ten
second_pass_merchant(text) ==
    LET at == {k \in 1..Min(Len(text), MerchantLinesRead) :
                  is_substantial_line(Strip(line_text(text[k])))}
    IN  IF at = {} THEN None
        ELSE Some(Strip(line_text(text[CHOOSE k \in at : \A j \in at : k <= j])))

\* extract_merchant(text)
extract_merchant(text) ==
    IF eigenbeleg_recipient(text) # None THEN eigenbeleg_recipient(text)
    ELSE IF issued_by_merchant(text) # None THEN issued_by_merchant(text)
    ELSE IF gmbh_merchant(text) # None THEN gmbh_merchant(text)
    ELSE IF first_pass_merchant(text) # None THEN first_pass_merchant(text)
    ELSE second_pass_merchant(text)

MerchantLines == {[kind |-> "company"], [kind |-> "recipient"], [kind |-> "issued_by"]}

\* the lines of the receipts that all three extractors are called on
ReceiptLines ==
    {[kind |-> "total", amount |-> A_1250_German],
     [kind |-> "gesamtbetrag", amount |-> A_German],
     [kind |-> "symbol", amount |-> A_Cent],
     [kind |-> "paid_on", date |-> Date(2026, 12, 13)],
     [kind |-> "numeric", date |-> Date(2026, 12, 13)],
     [kind |-> "german_month", date |-> Date(2026, 12, 13)]}
    \cup MerchantLines

\* the number of lines of a receipt
MaxLines == 2

\* what process_receipt extracts from a text on the day now
extract_all(text, now) ==
    [amount |-> extract_amount(text),
     date |-> extract_date(text, now),
     merchant |-> extract_merchant(text)]

\* extract_amount(text), extract_date(text) and extract_merchant(text) on the
\* day now
CallExtract ==
    /\ pc = "idle"
    /\ call = NoCall
    /\ \E text \in SeqUpTo(ReceiptLines, MaxLines), now \in Nows :
          call' = [op |-> "extract",
                   text |-> text,
                   now |-> now,
                   ret |-> extract_all(text, now)]
    /\ UNCHANGED <<matcher, partial_ratio, batch_vars, processor, perf_tracker>>

\* the three calls once more, on the same text, on the same or on a later day
CallExtractAgain ==
    /\ pc = "idle"
    /\ call.op = "extract"
    /\ "ret_again" \notin DOMAIN call
    /\ \E now_again \in Nows :
          /\ ~ date_after(call.now, now_again)
          /\ call' = call @@ [now_again |-> now_again,
                              ret_again |-> extract_all(call.text, now_again)]
    /\ UNCHANGED <<matcher, partial_ratio, batch_vars, processor, perf_tracker>>

NextExtract ==
    \/ CallExtract
    \/ CallExtractAgain

SpecExtract == InitProcessor /\ [][NextExtract]_vars

-----------------------------------------------------------------------------
(* detect_currency                                                         *)

\* s.count(needle)
RECURSIVE count_from(_, _, _)
count_from(s, needle, p) ==
    IF p + Len(needle) - 1 > Len(s) THEN 0
    ELSE IF SubSeq(s, p, p + Len(needle) - 1) = needle
         THEN 1 + count_from(s, needle, p + Len(needle))
         ELSE count_from(s, needle, p + 1)

\* text.count(needle) and, for upper = TRUE, text.upper().count(needle); the
\* needles have no line end in them
RECURSIVE text_count(_, _, _)
text_count(text, needle, upper) ==
    IF text = <<>> THEN 0
    ELSE count_from(IF upper THEN Upper(line_text(Head(text))) ELSE line_text(Head(text)),
                    needle, 1)
            + text_count(Tail(text), needle, upper)

S_POUND_SIGN == <<"POUND-SIGN">>

S_DOLLAR_SIGN == <<"DOLLAR-SIGN">>

S_UNITED_KINGDOM == <<"U","N","I","T","E","D"," ","K","I","N","G","D","O","M">>

S_UK_VAT == <<"U","K"," ","V","A","T">>

S_IRELAND == <<"I","R","E","L","A","N","D">>

S_USA == <<"U","S","A">>

S_UNITED_STATES == <<"U","N","I","T","E","D"," ","S","T","A","T","E","S">>

\* detect_currency(text); the last test, for DEUTSCHLAND, MWST and RECHNUNG,
\* returns what the default returns
detect_currency(text) ==
    LET eur_count == text_count(text, S_EUR, TRUE) + text_count(text, S_EUR_SIGN, FALSE)
        gbp_count == text_count(text, S_GBP, TRUE) + text_count(text, S_POUND_SIGN, FALSE)
        usd_count == text_count(text, S_USD, TRUE) + text_count(text, S_DOLLAR_SIGN, FALSE)
    IN  IF eur_count > 0 \/ text_count(text, S_EUR_SIGN, FALSE) > 0 THEN S_EUR
        ELSE IF gbp_count > usd_count /\ gbp_count > 0 THEN S_GBP
        ELSE IF usd_count > 0 THEN S_USD
        ELSE IF \E needle \in {S_UNITED_KINGDOM, S_UK_VAT, S_IRELAND} :
                    text_count(text, needle, TRUE) > 0 THEN S_GBP
        ELSE IF \E needle \in {S_USA, S_UNITED_STATES} :
                    text_count(text, needle, TRUE) > 0 THEN S_USD
        ELSE S_EUR

-----------------------------------------------------------------------------
(* Files, extract_text, process_receipt, process_all_receipts.             *)
(*                                                                         *)
(* A file is its name, its suffix and what the libraries do when they read *)
(* it: each step gives a text or raises. In the PDFs of the model at most  *)
(* one page has text, so that text += page_text joins no two lines.        *)

S_pdf == <<".","p","d","f">>

S_jpg == <<".","j","p","g">>

S_PNG == <<".","P","N","G">>

S_txt == <<".","t","x","t">>

\* the list of line 89 and of line 644
image_suffixes ==
    { <<".","j","p","g">>, <<".","j","p","e","g">>, <<".","p","n","g">>, <<".","t","i","f","f">>,
      <<".","t","i","f">>, <<".","b","m","p">>, <<".","g","i","f">> }

\* image_extensions of scan_receipts, without the '*'
image_extensions ==
    << <<".","j","p","g">>, <<".","j","p","e","g">>, <<".","p","n","g">>, <<".","t","i","f","f">>,
       <<".","t","i","f">>, <<".","b","m","p">>, <<".","g","i","f">> >>

\* a step that returns a text, and a step that raises
Ok(text) == [ok |-> TRUE, text |-> text]

Raises == [ok |-> FALSE]

EmptyLine == [kind |-> "empty"]

\* extract_text_from_image(image_path)
extract_text_from_image(file) ==
    IF file.image_to_string.ok THEN file.image_to_string.text ELSE <<>>

\* text += page_text + "\n" for the pages of ocr_pages, up to the first page
\* on which image_to_string raises; a text that ends with a line end is a
\* sequence whose last line is empty
RECURSIVE ocr_pages_text(_, _)
ocr_pages_text(ocr_pages, text) ==
    IF ocr_pages = <<>> \/ ~ Head(ocr_pages).ok THEN text
    ELSE LET page_text == Head(ocr_pages).text
             before == IF text = <<>> THEN <<>> ELSE SubSeq(text, 1, Len(text) - 1)
             page_lines == IF page_text = <<>> THEN <<EmptyLine>> ELSE page_text
         IN  ocr_pages_text(Tail(ocr_pages), before \o page_lines \o <<EmptyLine>>)

\* extract_text_from_pdf_with_ocr(pdf_path)
extract_text_from_pdf_with_ocr(file) ==
    IF ~ file.import_pdf2image THEN <<>>
    ELSE IF ~ file.convert_from_path THEN <<>>
    ELSE ocr_pages_text(file.ocr_pages, <<>>)

\* the loop over pdf.pages: the text read, and whether a page raised
RECURSIVE read_pages(_, _)
read_pages(pages, text) ==
    IF pages = <<>> THEN [text |-> text, raised |-> FALSE]
    ELSE IF ~ Head(pages).ok THEN [text |-> text, raised |-> TRUE]
    ELSE read_pages(Tail(pages), text \o Head(pages).text)

\* len(text.strip()) for the text of the pages of a PDF, which begins and
\* ends with a visible character
RECURSIVE text_length(_)
text_length(text) ==
    IF text = <<>> THEN 0
    ELSE Len(line_text(Head(text)))
            + (IF Tail(text) = <<>> THEN 0 ELSE 1 + text_length(Tail(text)))

\* below this length the text of a PDF is taken for a scan
ScannedPdfLength == 50

\* extract_text(file_path)
extract_text(file) ==
    IF Lower(file.suffix) \in image_suffixes THEN extract_text_from_image(file)
    ELSE IF ~ file.open THEN <<>>
    ELSE LET read == read_pages(file.pages, <<>>)
         IN  IF read.raised THEN read.text
             ELSE IF text_length(read.text) < ScannedPdfLength
                  THEN extract_text_from_pdf_with_ocr(file)
                  ELSE read.text

\* process_receipt(file_path), on the day now
process_receipt(file, now) ==
    LET text == extract_text(file)
    IN  [filename |-> file.name,
         path |-> <<"receipts", file.name>>,
         text |-> text,
         amount |-> extract_amount(text),
         date |-> extract_date(text, now),
         merchant |-> extract_merchant(text),
         currency |-> detect_currency(text),
         is_image |-> Lower(file.suffix) \in image_suffixes]

\* Path.glob("*" + suffix): the files of the folder with this suffix, on a
\* file system that tells upper case from lower case
glob(folder, suffix) == SelectSeq(folder, LAMBDA file : file.suffix = suffix)

\* the loop over image_extensions, from the entry numbered k on
RECURSIVE image_receipts_from(_, _)
image_receipts_from(folder, k) ==
    IF k > Len(image_extensions) THEN <<>>
    ELSE glob(folder, image_extensions[k]) \o glob(folder, Upper(image_extensions[k]))
            \o image_receipts_from(folder, k + 1)

\* scan_receipts(): the new value of self.receipts
ReceiptProcessor_scan_receipts(folder) == glob(folder, S_pdf) \o image_receipts_from(folder, 1)

\* a receipt of 55 characters, and one of 12
T_Receipt ==
    << [kind |-> "company"],
       [kind |-> "total", amount |-> A_1250_German],
       [kind |-> "paid_on", date |-> Date(2026, 12, 13)] >>

T_Short == << [kind |-> "total", amount |-> A_1250_German] >>

\* a PDF that needs no OCR
Pdf(name, open, pages) ==
    [name |-> name, suffix |-> S_pdf, open |-> open, pages |-> pages,
     import_pdf2image |-> TRUE, convert_from_path |-> TRUE, ocr_pages |-> <<>>]

\* a PDF without text of its own
ScannedPdf(name, import_pdf2image, convert_from_path, ocr_pages) ==
    [name |-> name, suffix |-> S_pdf, open |-> TRUE, pages |-> <<Ok(<<>>)>>,
     import_pdf2image |-> import_pdf2image, convert_from_path |-> convert_from_path,
     ocr_pages |-> ocr_pages]

\* the files that a folder may hold
Files ==
    { [name |-> "photo.jpg", suffix |-> S_jpg, image_to_string |-> Ok(T_Receipt)],
      [name |-> "broken.PNG", suffix |-> S_PNG, image_to_string |-> Raises],
      [name |-> "notes.txt", suffix |-> S_txt, image_to_string |-> Raises],
      Pdf("invoice.pdf", TRUE, <<Ok(T_Receipt)>>),
      Pdf("locked.pdf", FALSE, <<>>),
      Pdf("damaged.pdf", TRUE, <<Ok(T_Receipt), Raises>>),
      [Pdf("short.pdf", TRUE, <<Ok(T_Short)>>) EXCEPT !.ocr_pages = <<Ok(T_Short)>>],
      ScannedPdf("scan.pdf", TRUE, TRUE, <<Ok(T_Receipt), Raises>>),
      ScannedPdf("scan2.pdf", FALSE, TRUE, <<>>),
      ScannedPdf("scan3.pdf", TRUE, TRUE, <<Raises>>) }

\* the number of files in the folder
MaxFiles == 2

\* the days on which the receipts are processed
ProcessNows == {Date(2026, 11, 2), Date(2026, 12, 14)}

\* a ReceiptProcessor after __init__, on a folder with up to MaxFiles files
InitFolder ==
    /\ matcher = ReceiptMatcher(DefaultToleranceEur, DefaultToleranceNonEur,
                                DefaultMerchantThreshold)
    /\ partial_ratio = [score |-> 0]
    /\ pc = "idle"
    /\ call = NoCall
    /\ transactions = <<>>
    /\ receipts = <<>>
    /\ amount_frequency = << >>
    /\ results = <<>>
    /\ used_receipts = {}
    /\ i = 0
    /\ \E folder \in SeqUpTo(Files, MaxFiles) :
          /\ \A j, k \in 1..Len(folder) : j # k => folder[j].name # folder[k].name
          /\ processor = [NoReceipts EXCEPT !.folder = folder]
    /\ perf_tracker = PerformanceTracker

\* process_all_receipts(): the call and the code before the loop
StartProcessAll ==
    /\ processor.pc = "idle"
    /\ processor' = [processor EXCEPT
                        !.receipts = IF processor.receipts = <<>>
                                     THEN ReceiptProcessor_scan_receipts(processor.folder)
                                     ELSE processor.receipts,
                        !.results = <<>>,
                        !.pc = "loop"]
    /\ UNCHANGED <<matcher, partial_ratio, call, batch_vars, perf_tracker>>

\* one iteration of `for receipt_path in self.receipts`
ProcessNextReceipt ==
    /\ processor.pc = "loop"
    /\ Len(processor.results) < Len(processor.receipts)
    /\ \E now \in ProcessNows :
          processor' = [processor EXCEPT
                          !.results = Append(processor.results,
                              process_receipt(processor.receipts[Len(processor.results) + 1],
                                              now))]
    /\ UNCHANGED <<matcher, partial_ratio, call, batch_vars, perf_tracker>>

\* return results
ReturnReceipts ==
    /\ processor.pc = "loop"
    /\ Len(processor.results) = Len(processor.receipts)
    /\ processor' = [processor EXCEPT !.pc = "returned"]
    /\ UNCHANGED <<matcher, partial_ratio, call, batch_vars, perf_tracker>>

NextProcessAll ==
    \/ StartProcessAll
    \/ ProcessNextReceipt
    \/ ReturnReceipts

SpecProcessAll == InitFolder /\ [][NextProcessAll]_vars

-----------------------------------------------------------------------------
(* PerformanceTracker (src/src/utils/monitoring.py).  A duration is an     *)
(* integer number of milliseconds; a dict is a function on its keys.       *)

\* float('inf'): above every duration
Infinity == 2147483647

\* a / n for a count n > 0, as a fraction in lowest terms
float_div(a, n) ==
    IF a >= 0 THEN Frac(a, n)
    ELSE [num |-> 0 - Frac(0 - a, n).num, den |-> Frac(0 - a, n).den]

\* the entry that record makes for an operation it has not seen
new_metrics == [count |-> 0, total_time |-> 0, min_time |-> Infinity, max_time |-> 0]

\* record(operation, duration): self.metrics afterwards
record(metrics, operation, duration) ==
    LET created == IF operation \in DOMAIN metrics THEN metrics
                   ELSE metrics @@ (operation :> new_metrics)
        stats == created[operation]
    IN  [created EXCEPT ![operation] =
            [count |-> stats.count + 1,
             total_time |-> stats.total_time + duration,
             min_time |-> Min(stats.min_time, duration),
             max_time |-> Max(stats.max_time, duration)]]

\* stats.copy() with avg_time
with_avg_time(stats) ==
    stats @@ [avg_time |-> float_div(stats.total_time, stats.count)]

\* get_stats(operation=None); `if operation:` is false for None and for ''
get_stats(metrics, operation) ==
    IF operation # None /\ Val(operation) # <<>>
    THEN IF Val(operation) \in DOMAIN metrics
         THEN (Val(operation) :> with_avg_time(metrics[Val(operation)]))
         ELSE << >>
    ELSE [op \in DOMAIN metrics |-> with_avg_time(metrics[op])]

O_ocr == <<"o","c","r">>

O_match == <<"m","a","t","c","h">>

O_scan == <<"s","c","a","n">>

O_empty == <<>>

\* the operations recorded, and one that never is
RecordedOperations == {O_ocr, O_match, O_empty}

AskedOperations == {None} \cup {Some(o) : o \in RecordedOperations \cup {O_scan}}

\* durations in milliseconds; the last one is negative
Durations == {0, 1000, 2500, -500}

MaxRecords == 3

\* tracker.record(operation, duration)
Record ==
    /\ Len(perf_tracker.recorded) < MaxRecords
    /\ \E operation \in RecordedOperations, duration \in Durations :
          perf_tracker' =
              [perf_tracker EXCEPT
                  !.metrics = record(perf_tracker.metrics, operation, duration),
                  !.recorded = Append(perf_tracker.recorded, <<operation, duration>>),
                  !.asked = None,
                  !.stats = << >>]
    /\ UNCHANGED <<matcher, partial_ratio, call, batch_vars, processor>>

\* tracker.get_stats(operation)
GetStats ==
    /\ \E operation \in AskedOperations :
          perf_tracker' =
              [perf_tracker EXCEPT
                  !.asked = Some(operation),
                  !.stats = get_stats(perf_tracker.metrics, operation)]
    /\ UNCHANGED <<matcher, partial_ratio, call, batch_vars, processor>>

NextTracker ==
    \/ Record
    \/ GetStats

SpecTracker == InitProcessor /\ [][NextTracker]_vars

-----------------------------------------------------------------------------
(* Notions the properties are stated with.                                 *)

\* the call under observation is a call of match_transaction_to_receipt
PairCalled == call.op = "match_transaction_to_receipt"

\* the call under observation is a call of is_amount_match
AmountCalled == call.op = "is_amount_match"

\* match_all_transactions has returned `results`
Returned == pc = "returned"

\* the matcher was constructed with the default tolerances
DefaultTolerances ==
    /\ matcher.amount_tolerance_eur = DefaultToleranceEur
    /\ matcher.amount_tolerance_non_eur = DefaultToleranceNonEur

\* the text of a transaction's description
description_of(transaction) == Str(Get(transaction, "description", Some(<<>>)))

\* the description contains an exclusion keyword, in any letter case
has_exclusion_keyword(transaction) ==
    \E k \in 1..Len(exclude_keywords) :
        Contains(Lower(exclude_keywords[k]), Lower(description_of(transaction)))

\* the description contains USD, GBP or FOREIGN, in any letter case
has_currency_marker(transaction) ==
    \E marker \in {S_USD, S_GBP, S_FOREIGN} :
        Contains(Lower(marker), Lower(description_of(transaction)))

\* the known merchants whose name, in one of its variants, a text contains
known_merchants_in(text) ==
    {m \in 1..Len(specific_merchants) :
        \E var \in specific_merchants[m].variations : Contains(var, Lower(text))}

\* the description names a known merchant that the receipt merchant text does not
names_other_merchant(transaction, receipt) ==
    known_merchants_in(description_of(transaction))
        \ known_merchants_in(Str(Get(receipt, "merchant", Some(<<>>)))) # {}

\* the receipt is in EUR
is_eur_receipt(receipt) == Get(receipt, "currency", S_EUR) = S_EUR

\* the pair result of the k-th transaction with the n-th receipt of the batch
pair_result(k, n) ==
    match_transaction_to_receipt(matcher, transactions[k], receipts[n], partial_ratio)

\* the pair result of the k-th transaction with the receipt it was given
pair_of_result(k) ==
    match_transaction_to_receipt(matcher, transactions[k], results[k].receipt,
                                 partial_ratio)

\* the filenames consumed by the transactions before the k-th
consumed_before(k) ==
    {results[j].receipt.filename : j \in {j \in 1..(k - 1) : results[j].matched}}

\* position, acceptance and pair confidence of a receipt
candidate(n, r) == [n |-> n, is_match |-> r.is_match, confidence |-> r.confidence]

\* the receipts accepted for the k-th transaction and not consumed before it,
\* each with its position in the receipt list and its pair confidence
accepted_unconsumed(k) ==
    {c \in {candidate(n, pair_result(k, n)) :
                n \in {n \in 1..Len(receipts) :
                          receipts[n].filename \notin consumed_before(k)}} :
        c.is_match}

\* c has the highest confidence of the candidates and is the first that has it
is_first_best(c, candidates) ==
    /\ c \in candidates
    /\ \A d \in candidates :
          \/ c.confidence > d.confidence
          \/ c.confidence = d.confidence /\ c.n <= d.n

\* the absolute amount of the k-th transaction occurs once in the batch
amount_is_unique(k) ==
    /\ has_amount(transactions[k])
    /\ Cardinality({j \in 1..Len(transactions) :
                       /\ has_amount(transactions[j])
                       /\ Abs(Val(transactions[j].amount))
                              = Abs(Val(transactions[k].amount))}) = 1

\* the amount_diff_percent of a pair result is below 0.1%
diff_below_one_per_mille(r) ==
    FracLT(Get(r.details, "amount_diff_percent", Frac(1, 1)), Frac(1, 1000))

\* the k-th result carries the boosted confidence of pair result r and the flag
is_boosted(k, r) ==
    /\ results[k].confidence = Min(100, r.confidence + 30)
    /\ Get(results[k].match_details, "exact_amount_boost", FALSE)

\* the k-th result carries the confidence of pair result r and no boost flag
is_plain(k, r) ==
    /\ results[k].confidence = r.confidence
    /\ "exact_amount_boost" \notin DOMAIN results[k].match_details

-----------------------------------------------------------------------------
(* Properties of match_all_transactions and match_transaction_to_receipt.  *)

\* C1: in the output of match_all_transactions no two matched results
\* reference a receipt with the same filename.
C1_Exclusivity ==
    Returned =>
        \A a, b \in 1..Len(results) :
            (a # b /\ results[a].matched /\ results[b].matched)
                => results[a].receipt.filename # results[b].receipt.filename

\* a batch in which the second transaction stays unmatched although a receipt
\* with the filename the first one consumed is accepted for it
C1_Witness ==
    /\ Returned
    /\ Len(results) = 2
    /\ results[1].matched
    /\ ~ results[2].matched
    /\ \E n \in 1..Len(receipts) :
          /\ receipts[n].filename = results[1].receipt.filename
          /\ pair_result(2, n).is_match
    /\ accepted_unconsumed(2) = {}

\* C2: a transaction whose description contains an exclusion keyword, in any
\* letter case, is rejected by match_transaction_to_receipt with confidence 0
\* against every receipt; in match_all_transactions it is reported unmatched,
\* carries no receipt, and the consumed filenames are those of the matched
\* results only.
C2_BankFeeRejected ==
    /\ (PairCalled /\ has_exclusion_keyword(call.transaction))
          => (~ call.ret.is_match /\ call.ret.confidence = 0)
    /\ \A k \in 1..Len(results) :
          has_exclusion_keyword(transactions[k])
              => (~ results[k].matched /\ "receipt" \notin DOMAIN results[k])
    /\ used_receipts =
          {results[k].receipt.filename : k \in {k \in 1..Len(results) : results[k].matched}}

\* a mixed-case keyword, amounts that agree and a receipt in EUR: rejected
C2_Witness ==
    /\ PairCalled
    /\ call.transaction.description = Some(D_MwstMixed)
    /\ call.receipt.amount = call.transaction.amount
    /\ is_eur_receipt(call.receipt)
    /\ call.receipt.date = call.transaction.date
    /\ ~ call.ret.is_match
    /\ call.ret.confidence = 0

\* C3: every confidence is an integer in [0,100]: the one returned by
\* match_transaction_to_receipt and the one of every matched result, boosted
\* or not.
C3_ConfidenceInRange ==
    /\ PairCalled => call.ret.confidence \in 0..100
    /\ \A k \in 1..Len(results) :
          results[k].matched => results[k].confidence \in 0..100

\* a boosted result whose pair confidence plus 30 exceeds 100: clipped to 100
C3_Witness ==
    /\ Returned
    /\ \E k \in 1..Len(results) :
          /\ results[k].matched
          /\ Get(results[k].match_details, "exact_amount_boost", FALSE)
          /\ pair_of_result(k).confidence + 30 > 100
          /\ pair_of_result(k).confidence < 100
          /\ results[k].confidence = 100

\* C4: match_all_transactions returns one result per transaction, in input
\* order: the i-th result has transaction_index i (from 0) and carries the
\* i-th transaction, matched or not.
C4_OneResultPerTransaction ==
    Returned =>
        /\ Len(results) = Len(transactions)
        /\ \A k \in 1..Len(results) :
              /\ results[k].transaction_index = k - 1
              /\ results[k].transaction = transactions[k]

\* a batch of an unmatched transaction followed by a matched one
C4_Witness ==
    /\ Returned
    /\ Len(transactions) = 2
    /\ ~ results[1].matched
    /\ results[2].matched
    /\ results[2].transaction_index = 1

\* C5: the i-th transaction is paired with the receipt of highest pair
\* confidence among the receipts accepted for it whose filename was not
\* consumed by the transactions before it, the first one in the receipt list
\* on equal confidence, and is unmatched when there is no such receipt.
C5_GreedyBestReceipt ==
    Returned =>
        \A k \in 1..Len(results) :
            LET candidates == accepted_unconsumed(k)
            IN  IF candidates = {}
                THEN ~ results[k].matched
                ELSE /\ results[k].matched
                     /\ \E c \in candidates :
                           /\ is_first_best(c, candidates)
                           /\ results[k].receipt = receipts[c.n]

\* two different receipts accepted with equal confidence: the first is kept
C5_Witness ==
    /\ Returned
    /\ \E k \in 1..Len(results) :
          \E c, d \in accepted_unconsumed(k) :
              /\ c.n < d.n
              /\ receipts[c.n] # receipts[d.n]
              /\ c.confidence = d.confidence
              /\ results[k].matched
              /\ results[k].receipt = receipts[c.n]

\* a later receipt of strictly higher confidence replaces the first accepted one
C5_LaterReceiptWins ==
    /\ Returned
    /\ \E k \in 1..Len(results) :
          \E c, d \in accepted_unconsumed(k) :
              /\ c.n < d.n
              /\ c.confidence < d.confidence
              /\ results[k].matched
              /\ results[k].receipt = receipts[d.n]
              /\ receipts[c.n] # receipts[d.n]

\* C6, as the specification states it: a matched result is boosted exactly
\* when the pair's amount_diff_percent is below 0.1% and the transaction's
\* absolute amount occurs once in the batch, and carries the pair confidence
\* otherwise.
C6_BoostWhenDiffSmallAndUnique ==
    Returned =>
        \A k \in 1..Len(results) :
            results[k].matched =>
                LET r == pair_of_result(k)
                IN  IF diff_below_one_per_mille(r) /\ amount_is_unique(k)
                    THEN is_boosted(k, r)
                    ELSE is_plain(k, r)

\* C6, as the code has it: a matched result is boosted exactly when the pair
\* has amount_match, its amount_diff_percent is below 0.1% and the
\* transaction's absolute amount occurs once in the batch, and carries the
\* pair confidence otherwise.
C6_BoostWhenAmountMatchedAndUnique ==
    Returned =>
        \A k \in 1..Len(results) :
            results[k].matched =>
                LET r == pair_of_result(k)
                IN  IF /\ Get(r.details, "amount_match", FALSE)
                       /\ diff_below_one_per_mille(r)
                       /\ amount_is_unique(k)
                    THEN is_boosted(k, r)
                    ELSE is_plain(k, r)

\* a boosted result, 30 above its pair confidence, next to a matched one that
\* is not boosted
C6_Witness ==
    /\ Returned
    /\ \E k, j \in 1..Len(results) :
          /\ results[k].matched
          /\ results[j].matched
          /\ is_boosted(k, pair_of_result(k))
          /\ results[k].confidence = pair_of_result(k).confidence + 30
          /\ results[k].confidence < 100
          /\ is_plain(j, pair_of_result(j))

\* two transactions of the same absolute amount, both matched exactly, neither
\* boosted
C6_DuplicatesNotBoosted ==
    /\ Returned
    /\ Len(results) = 2
    /\ results[1].matched /\ results[2].matched
    /\ ~ amount_is_unique(1)
    /\ pair_of_result(1).details.amount_diff_percent = Frac(0, 1)
    /\ pair_of_result(2).details.amount_diff_percent = Frac(0, 1)
    /\ is_plain(1, pair_of_result(1))
    /\ is_plain(2, pair_of_result(2))

C7_GuardPasses ==
    /\ PairCalled
    /\ ~ has_exclusion_keyword(call.transaction)
    /\ names_other_merchant(call.transaction, call.receipt)
    /\ call.ret.details.amount_match
    /\ call.ret.details.merchant_score = 70
    /\ call.ret.is_match

\* C8, as the specification states it: with the default EUR tolerance,
\* is_amount_match(100.00, 100.10, is_eur=true) returns is_match = false.
C8_BoundaryRejected ==
    (/\ AmountCalled
     /\ DefaultTolerances
     /\ call.amount1 = Some(Cents(10000))
     /\ call.amount2 = Some(Cents(10010))
     /\ call.is_eur) => call.ret[1] = FALSE

\* C8, as the code has it: with the default EUR tolerance,
\* is_amount_match(100.00, 100.10, is_eur=true) returns is_match = true with
\* the difference 0.10/100.10 = 1/1001, which is below 0.001; the first
\* amount in whole cents that is rejected against 100.00 is 100.11.
C8_BoundaryAccepted ==
    (AmountCalled /\ DefaultTolerances /\ call.amount1 = Some(Cents(10000))
                  /\ call.is_eur) =>
        /\ call.amount2 = Some(Cents(10010))
              => (call.ret[1] = TRUE /\ call.ret[2] = Frac(1, 1001))
        /\ call.amount2 = Some(Cents(10011)) => call.ret[1] = FALSE

\* the call is_amount_match(100.00, 100.10, is_eur=true) on a default matcher
C8_Witness ==
    /\ AmountCalled
    /\ DefaultTolerances
    /\ call.amount1 = Some(Cents(10000))
    /\ call.amount2 = Some(Cents(10010))
    /\ call.is_eur
    /\ call.ret[1] = TRUE

\* C9: with the default tolerances, for a receipt in EUR and a description
\* without exclusion keyword, currency marker and known merchant name,
\* amount_match implies is_match, for every merchant score and all dates.
C9_AmountMatchSuffices ==
    (/\ PairCalled
     /\ DefaultTolerances
     /\ is_eur_receipt(call.receipt)
     /\ ~ has_exclusion_keyword(call.transaction)
     /\ ~ has_currency_marker(call.transaction)
     /\ known_merchants_in(description_of(call.transaction)) = {}
     /\ call.ret.details.amount_match) => call.ret.is_match

\* an amount match with merchant score 0, no receipt merchant and no receipt
\* date: accepted
C9_Witness ==
    /\ PairCalled
    /\ DefaultTolerances
    /\ is_eur_receipt(call.receipt)
    /\ call.transaction.description = Some(D_Unknown)
    /\ call.receipt.merchant = None
    /\ call.receipt.date = None
    /\ call.ret.details.amount_match
    /\ call.ret.details.merchant_score = 0
    /\ call.ret.is_match

\* C10: a transaction without exclusion keyword and a receipt in EUR with
\* equal absolute amounts, the same date and a merchant score of at least 70
\* are matched with amount_match and a confidence of at least 80.
C10_AllSignalsAgree ==
    (/\ PairCalled
     /\ ~ has_exclusion_keyword(call.transaction)
     /\ is_eur_receipt(call.receipt)
     /\ has_amount(call.transaction)
     /\ call.receipt.amount # None
     /\ Abs(Val(call.transaction.amount)) = Abs(Val(call.receipt.amount))
     /\ call.transaction.date # None
     /\ call.receipt.date = call.transaction.date
     /\ call.ret.details.merchant_score >= 70) =>
        /\ call.ret.is_match
        /\ call.ret.details.amount_match
        /\ call.ret.confidence >= 80

\* a negative transaction amount against the same positive receipt amount,
\* same day, merchant contained in the description
C10_Witness ==
    /\ PairCalled
    /\ call.transaction.description = Some(D_Rewe)
    /\ has_amount(call.transaction)
    /\ call.transaction.amount = Some(-Cents(1000))
    /\ call.receipt.amount = Some(Cents(1000))
    /\ is_eur_receipt(call.receipt)
    /\ call.receipt.merchant = Some(M_Rewe)
    /\ call.receipt.date = call.transaction.date
    /\ call.transaction.date # None
    /\ call.ret.is_match
    /\ call.ret.details.amount_match
    /\ call.ret.confidence >= 80

-----------------------------------------------------------------------------
(* Rejections and their record.                                            *)

\* the pair was accepted by the matching logic: by its amount, or by merchant
\* and date without the amount
accepted_by_matching_logic(details) ==
    \/ details.amount_match
    \/ Get(details, "matched_without_amount", FALSE)

\* the merchant score and the amount difference of the details fail the
\* graduated scale: 60 and more passes, 40..59 asks for at most 5%, 25..39
\* for at most 3%, less than 25 for at most 1%
fails_graduated_scale(details) ==
    LET limit == IF details.merchant_score >= 40 THEN Frac(5, 100)
                 ELSE IF details.merchant_score >= 25 THEN Frac(3, 100)
                 ELSE Frac(1, 100)
    IN  /\ details.merchant_score < 60
        /\ FracLT(limit, details.amount_diff_percent)

\* C11: whenever match_transaction_to_receipt rejects a pair by a business
\* rule (a bank-fee keyword in the description, the known-merchant cross-check
\* on a pair the matching logic accepted, or the graduated merchant/amount
\* scale on such a pair), the returned details contain a rejected_reason.
C11_RejectionsRecorded ==
    PairCalled =>
        LET details == call.ret.details
            by_rule ==
                \/ has_exclusion_keyword(call.transaction)
                \/ /\ accepted_by_matching_logic(details)
                   /\ \/ /\ names_other_merchant(call.transaction, call.receipt)
                         /\ details.merchant_score < 70
                      \/ fails_graduated_scale(details)
        IN  (~ call.ret.is_match /\ by_rule) => "rejected_reason" \in DOMAIN details

\* a pair inside the non-EUR tolerance and outside the graduated scale: rejected
\* without a rejected_reason
C11_GraduatedRejectionUnrecorded ==
    /\ PairCalled
    /\ ~ has_exclusion_keyword(call.transaction)
    /\ call.ret.details.amount_match
    /\ ~ names_other_merchant(call.transaction, call.receipt)
    /\ fails_graduated_scale(call.ret.details)
    /\ ~ call.ret.is_match
    /\ "rejected_reason" \notin DOMAIN call.ret.details

\* the two rules that do record: every rejection by a keyword or by the
\* known-merchant cross-check has a rejected_reason
C11_KeywordAndGuardRecorded ==
    PairCalled =>
        LET details == call.ret.details
            by_rule ==
                \/ has_exclusion_keyword(call.transaction)
                \/ /\ accepted_by_matching_logic(details)
                   /\ names_other_merchant(call.transaction, call.receipt)
                   /\ details.merchant_score < 70
        IN  by_rule => (~ call.ret.is_match /\ "rejected_reason" \in DOMAIN details)

-----------------------------------------------------------------------------
(* The configuration.                                                      *)

\* the tolerances lie in [0,1] and the merchant threshold in [0,100]
ConfigurationValid ==
    /\ matcher.amount_tolerance_eur \in 0..TolScale
    /\ matcher.amount_tolerance_non_eur \in 0..TolScale
    /\ matcher.merchant_threshold \in 0..100

\* a transaction of the batch has been evaluated against the receipts
TransactionEvaluated == pc # "idle" /\ i > 0 /\ receipts # <<>>

\* C12: an invalid matcher configuration (a tolerance outside [0,1], the
\* merchant threshold outside [0,100]) is rejected before matching begins: no
\* transaction is evaluated by a matcher with such a configuration.
C12_InvalidConfigurationRejected ==
    TransactionEvaluated => ConfigurationValid

\* a batch matched by a matcher built with --amount-tolerance -0.001, a value
\* for which Config.validate raises: equal amounts are no amount match
C12_MatchedWithInvalidTolerance ==
    /\ Returned
    /\ Config_validate(matcher.amount_tolerance_eur, matcher.merchant_threshold) # {}
    /\ matcher.amount_tolerance_eur < 0
    /\ \E k \in 1..Len(results) :
          /\ results[k].matched
          /\ ~ results[k].match_details.amount_match
          /\ results[k].match_details.amount_diff_percent = Frac(0, 1)

-----------------------------------------------------------------------------
(* The report.                                                             *)

\* the call under observation is a call of generate_report
ReportCalled == call.op = "generate_report"

\* the positions of the matched results of a list
matched_positions(match_results) ==
    {k \in 1..Len(match_results) : match_results[k].matched}

RECURSIVE total_confidence(_, _)

\* the sum of the confidences at the positions S
total_confidence(match_results, S) ==
    IF S = {} THEN 0
    ELSE LET k == CHOOSE k \in S : TRUE
         IN  match_results[k].confidence + total_confidence(match_results, S \ {k})

\* C13: generate_report returns total_transactions = the number of results,
\* matched = the number of matched results, unmatched = total - matched,
\* match_rate = matched / total * 100 (0 for the empty list) and
\* average_confidence = the mean confidence of the matched results (0 when
\* none is matched).
C13_Report ==
    ReportCalled =>
        LET match_results == call.match_results
            report == call.ret
            positions == matched_positions(match_results)
        IN  /\ report.total_transactions = Len(match_results)
            /\ report.matched = Cardinality(positions)
            /\ report.unmatched = report.total_transactions - report.matched
            /\ report.matched + report.unmatched = report.total_transactions
            /\ IF match_results = <<>>
               THEN report.match_rate = Frac(0, 1)
               ELSE report.match_rate.num * Len(match_results)
                        = report.matched * 100 * report.match_rate.den
            /\ IF positions = {}
               THEN report.average_confidence = Frac(0, 1)
               ELSE report.average_confidence.num * Cardinality(positions)
                        = total_confidence(match_results, positions)
                              * report.average_confidence.den

\* three results, two of them matched with confidences 50 and 100: rate 200/3,
\* average 75
C13_Witness ==
    /\ ReportCalled
    /\ Len(call.match_results) = 3
    /\ call.ret.matched = 2
    /\ call.ret.unmatched = 1
    /\ call.ret.match_rate = Frac(200, 3)
    /\ call.ret.average_confidence = Frac(75, 1)
    /\ \E k \in 1..3 : call.match_results[k].matched
                          /\ call.match_results[k].confidence = 100

-----------------------------------------------------------------------------
(* The currency conversion.                                                *)

\* the call under observation is a call of convert_currency_to_eur
ConvertCalled == call.op = "convert_currency_to_eur"

\* the static rate of a currency in hundredths: EUR 1.0, GBP 1.19, USD 0.92,
\* every other code 1.0
static_rate(currency) ==
    IF currency = S_GBP THEN 119
    ELSE IF currency = S_USD THEN 92
    ELSE 100

\* C14: convert_currency_to_eur returns amount * rate with the static rate of
\* the currency; for EUR and for an unknown code it returns the amount; and
\* converting a converted amount as EUR returns it unchanged:
\* to_eur(to_eur(x, c), 'EUR') = to_eur(x, c).
C14_Conversion ==
    ConvertCalled =>
        /\ call.ret * 100 = call.amount * static_rate(call.currency)
        /\ call.currency \notin {S_GBP, S_USD} => call.ret = call.amount
        /\ call.converted_from # None =>
              /\ call.ret = call.amount
              /\ call.ret * 100 = Val(call.converted_from).amount
                                    * static_rate(Val(call.converted_from).currency)

\* 100.0 USD converted to 92.0, and 92.0 converted as EUR: still 92.0
C14_Witness ==
    /\ ConvertCalled
    /\ call.converted_from = Some([amount |-> Cents(10000), currency |-> S_USD])
    /\ call.amount = Cents(9200)
    /\ call.currency = S_EUR
    /\ call.ret = Cents(9200)

\* a code that is not in the table, here the lower-case 'usd' and 'CHF': the
\* amount is returned as it is
C14_UnknownCurrency ==
    /\ ConvertCalled
    /\ call.converted_from = None
    /\ call.currency \in {S_usd, S_CHF}
    /\ call.amount = Cents(4484)
    /\ call.ret = Cents(4484)

-----------------------------------------------------------------------------
(* Number formats.                                                         *)

NormalizeCalled == call.op = "normalize_amount"

\* the string s with every occurrence of the character ch left out
without(s, ch) == SelectSeq(s, LAMBDA c : c # ch)

A_Normalized == <<"1","2","3","4",".","5","6">>

\* C15: with format 'german' normalize_amount removes every '.' and then
\* replaces every ',' by '.'; with any other format it removes every ',' and
\* leaves '.' untouched; "1.234,56" as german and "1,234.56" as english both
\* give "1234.56".
C15_NormalizeAmount ==
    NormalizeCalled =>
        LET kept == without(call.amount_str, ".") IN
        /\ call.number_format = S_german =>
              call.ret = [k \in 1..Len(kept) |-> IF kept[k] = "," THEN "." ELSE kept[k]]
        /\ call.number_format # S_german =>
              call.ret = without(call.amount_str, ",")
        /\ call.amount_str = A_German /\ call.number_format = S_german =>
              call.ret = A_Normalized
        /\ call.amount_str = A_English /\ call.number_format = S_english =>
              call.ret = A_Normalized

\* "1.234,56" normalized as german
C15_Witness ==
    /\ NormalizeCalled
    /\ call.amount_str = A_German
    /\ call.number_format = S_german
    /\ call.ret = A_Normalized

\* "1,234.56" normalized as english
C15_EnglishWitness ==
    /\ NormalizeCalled
    /\ call.amount_str = A_English
    /\ call.number_format = S_english
    /\ call.ret = A_Normalized

-----------------------------------------------------------------------------
(* The amount of a receipt.                                                *)

ExtractAmountCalled == call.op = "extract_amount"

\* the matches of the pattern numbered p in the text of the call
matches_of(p) == findall(p, call.text)

\* the positions, among the matches of the pattern numbered p, of the valid
\* candidates: those that normalize to a number in [0.01, 999999]
candidate_positions(p) ==
    {k \in 1..Len(matches_of(p)) :
        valid_amount(matches_of(p)[k], call.number_format) # None}

\* the candidate at position k of the pattern numbered p, as a number
candidate_at(p, k) == valid_amount(matches_of(p)[k], call.number_format)

\* the patterns that have at least one valid candidate
patterns_with_candidate == {p \in 1..AmountPatterns : candidate_positions(p) # {}}

\* C19: extract_amount returns the last, in document order, valid candidate
\* of the first pattern, in the order of the list, that has at least one valid
\* candidate; a pattern of higher priority whose matches are all invalid does
\* not stop the search; the result is null when no pattern has a valid
\* candidate; every result that is not null lies in [0.01, 999999].
C19_LastCandidateOfFirstPattern ==
    ExtractAmountCalled =>
        /\ patterns_with_candidate = {} => call.ret = None
        /\ patterns_with_candidate # {} =>
              LET p == CHOOSE q \in patterns_with_candidate :
                           \A o \in patterns_with_candidate : q <= o
                  k == CHOOSE j \in candidate_positions(p) :
                           \A o \in candidate_positions(p) : j >= o
              IN  call.ret = candidate_at(p, k)
        /\ call.ret # None =>
              LET whole == Val(call.ret).num \div Val(call.ret).den
                  rest == Val(call.ret).num % Val(call.ret).den
              IN  /\ Val(call.ret).num * 100 >= Val(call.ret).den
                  /\ whole < 999999 \/ (whole = 999999 /\ rest = 0)

\* a pattern of higher priority has matches, all of them invalid; the next
\* pattern with matches has two valid candidates that differ, and the later
\* one is returned
C19_Witness ==
    /\ ExtractAmountCalled
    /\ \E p, q \in 1..AmountPatterns :
          /\ p < q
          /\ matches_of(p) # <<>>
          /\ \A o \in 1..(q - 1) : candidate_positions(o) = {}
          /\ candidate_positions(q) = {1, 2}
          /\ candidate_at(q, 1) # candidate_at(q, 2)
          /\ call.ret = candidate_at(q, 2)

\* no pattern has a valid candidate although patterns match: null
C19_NoCandidate ==
    /\ ExtractAmountCalled
    /\ \E p \in 1..AmountPatterns : matches_of(p) # <<>>
    /\ patterns_with_candidate = {}
    /\ call.ret = None

-----------------------------------------------------------------------------
(* Two extractions from one text.                                          *)

\* the extractors were called twice on the text of the call
ExtractedTwice == call.op = "extract" /\ "ret_again" \in DOMAIN call

\* C16: extract_amount, extract_date and extract_merchant are pure functions
\* of the receipt text: two calls on identical text return identical
\* results, whatever the moments of the calls.
C16_PureFunctionsOfText ==
    ExtractedTwice =>
        /\ call.ret_again.amount = call.ret.amount
        /\ call.ret_again.date = call.ret.date
        /\ call.ret_again.merchant = call.ret.merchant

\* one text, two days: extract_date returns two dates
C16_DateDependsOnTheDay ==
    /\ ExtractedTwice
    /\ call.now # call.now_again
    /\ call.ret.date # None
    /\ call.ret_again.date # None
    /\ call.ret_again.date # call.ret.date
    /\ call.ret_again.amount = call.ret.amount
    /\ call.ret_again.merchant = call.ret.merchant

\* what does hold: on one and the same day the three results are the same,
\* and the amount and the merchant are the same on every day
C16_SameDaySameResults ==
    ExtractedTwice =>
        /\ call.ret_again.amount = call.ret.amount
        /\ call.ret_again.merchant = call.ret.merchant
        /\ call.now_again = call.now => call.ret_again.date = call.ret.date

-----------------------------------------------------------------------------
(* A folder of receipts.                                                   *)

ProcessAllReturned == processor.pc = "returned"

\* a library raises while extract_text reads the file
extraction_raises(file) ==
    IF Lower(file.suffix) \in image_suffixes THEN ~ file.image_to_string.ok
    ELSE \/ ~ file.open
         \/ \E k \in 1..Len(file.pages) : ~ file.pages[k].ok
         \/ /\ text_length(read_pages(file.pages, <<>>).text) < ScannedPdfLength
            /\ \/ ~ file.import_pdf2image
               \/ ~ file.convert_from_path
               \/ \E k \in 1..Len(file.ocr_pages) : ~ file.ocr_pages[k].ok

\* the record at position k of the results has neither amount nor date nor
\* merchant
null_fields(k) ==
    /\ processor.results[k].amount = None
    /\ processor.results[k].date = None
    /\ processor.results[k].merchant = None

\* C17: process_all_receipts returns exactly one record per scanned file, in
\* scan order; when the text extraction fails for a file (unreadable file,
\* PDF or OCR error), that file's record has null amount, date and merchant,
\* and the files after it are processed all the same.
C17_BadFileGivesNullRecord ==
    ProcessAllReturned =>
        /\ Len(processor.results) = Len(processor.receipts)
        /\ \A k \in 1..Len(processor.receipts) :
              /\ processor.results[k].filename = processor.receipts[k].name
              /\ extraction_raises(processor.receipts[k]) => null_fields(k)

\* a page of a PDF raises after a page with text was read: the record is
\* made from the text read so far, and has an amount, a date and a merchant
C17_PartialTextUsed ==
    /\ ProcessAllReturned
    /\ \E k \in 1..Len(processor.receipts) :
          /\ extraction_raises(processor.receipts[k])
          /\ processor.results[k].filename = processor.receipts[k].name
          /\ processor.results[k].text # <<>>
          /\ processor.results[k].amount # None
          /\ processor.results[k].date # None
          /\ processor.results[k].merchant # None

\* what does hold: one record per scanned file, in scan order, whatever the
\* libraries raise, and null fields for every file that gave no text
C17_OneRecordPerFile ==
    ProcessAllReturned =>
        /\ Len(processor.results) = Len(processor.receipts)
        /\ \A k \in 1..Len(processor.receipts) :
              /\ processor.results[k].filename = processor.receipts[k].name
              /\ processor.results[k].text = <<>> => null_fields(k)

\* a file that cannot be read comes first: its record has null fields, and
\* the file after it is processed
C17_BadFileFirst ==
    /\ ProcessAllReturned
    /\ Len(processor.receipts) = 2
    /\ extraction_raises(processor.receipts[1])
    /\ processor.results[1].text = <<>>
    /\ null_fields(1)
    /\ processor.results[2].amount # None

-----------------------------------------------------------------------------
(* The date of a receipt.                                                  *)

ExtractDateCalled == call.op = "extract_date"

\* the date that the keyword-anchored patterns yield in the call, if any
date_by_keyword == search_priority_patterns(call.text, call.now, 1)

\* C18: extract_date never returns a date in the future: whichever pattern,
\* keyword-anchored or generic, yields the date, every date returned is not
\* later than the day of the call.
C18_NeverInTheFuture ==
    ExtractDateCalled /\ call.ret # None => ~ date_after(Val(call.ret), call.now)

\* a keyword-anchored pattern yields a date after the day of the call, and
\* the date is returned as it is written
C18_FutureDateByKeyword ==
    /\ ExtractDateCalled
    /\ date_by_keyword # None
    /\ call.ret = date_by_keyword
    /\ date_after(Val(call.ret), call.now)
    /\ Val(call.ret).year <= call.now.year + 1

\* a date with a German month name, after the day of the call, is returned
\* as it is written
C18_FutureDateByGermanMonth ==
    /\ ExtractDateCalled
    /\ date_by_keyword = None
    /\ Len(call.text) = 1
    /\ call.text[1].kind = "german_month"
    /\ call.ret = Some(call.text[1].date)
    /\ date_after(Val(call.ret), call.now)

\* what does hold: a date that a fallback pattern yields and dateutil parses
\* is moved back until it is not after the day of the call
C18_ParsedFallbackNotInTheFuture ==
    ExtractDateCalled /\ date_by_keyword = None /\ call.ret # None
        /\ (\A k \in 1..Len(call.text) : call.text[k].kind # "german_month")
        => ~ date_after(Val(call.ret), call.now)

C18_MovedBackTwice ==
    /\ ExtractDateCalled
    /\ call.text = <<[kind |-> "numeric", date |-> Date(2026, 12, 13)]>>
    /\ call.now = Date(2025, 6, 15)
    /\ call.ret = Some(Date(2024, 12, 13))

-----------------------------------------------------------------------------
(* The amount check.                                                       *)

\* the amount with the other sign
negated(amount) == IF amount = None THEN None ELSE Some(0 - Val(amount))

\* the tolerance that a call of is_amount_match uses
tolerance_of_call ==
    IF call.is_eur THEN matcher.amount_tolerance_eur
                   ELSE matcher.amount_tolerance_non_eur

\* C20: is_amount_match compares absolute values with an inclusive bound:
\* for amounts that are neither null nor zero it returns (diff <= tolerance,
\* diff) with diff = ||a1| - |a2|| / max(|a1|, |a2|) and the tolerance for
\* EUR when is_eur is true, the one for other currencies otherwise; the
\* result is the same when an amount is negated or the two are swapped; two
\* zero amounts match with diff 0, a zero amount and a non-zero one do not
\* match (diff 1), and a null amount gives (false, 1).
C20_AbsoluteInclusive ==
    AmountCalled =>
        /\ IF call.amount1 = None \/ call.amount2 = None
           THEN call.ret = <<FALSE, Frac(1, 1)>>
           ELSE LET a1 == Abs(Val(call.amount1))
                    a2 == Abs(Val(call.amount2))
                    larger == IF a1 >= a2 THEN a1 ELSE a2
                    smaller == IF a1 >= a2 THEN a2 ELSE a1
                IN  IF a1 = 0 /\ a2 = 0 THEN call.ret = <<TRUE, Frac(0, 1)>>
                    ELSE IF a1 = 0 \/ a2 = 0 THEN call.ret = <<FALSE, Frac(1, 1)>>
                    ELSE /\ call.ret[2] = Frac(larger - smaller, larger)
                         /\ call.ret[1] =
                               (call.ret[2].num * TolScale
                                    <= tolerance_of_call * call.ret[2].den)
        /\ call.ret = is_amount_match(matcher, negated(call.amount1),
                                      call.amount2, call.is_eur)
        /\ call.ret = is_amount_match(matcher, call.amount1,
                                      negated(call.amount2), call.is_eur)
        /\ call.ret = is_amount_match(matcher, call.amount2, call.amount1,
                                      call.is_eur)

\* is_amount_match(-100.00, 80.00, is_eur=false) with the default tolerance
\* of 20%: the difference is 20/100, equal to the tolerance, and the amounts
\* match
C20_Witness ==
    /\ AmountCalled
    /\ DefaultTolerances
    /\ call.amount1 = Some(-Cents(10000))
    /\ call.amount2 = Some(Cents(8000))
    /\ ~ call.is_eur
    /\ call.ret = <<TRUE, Frac(1, 5)>>

\* equal amounts of opposite signs under a tolerance of 0: they match
C20_ZeroTolerance ==
    /\ AmountCalled
    /\ matcher.amount_tolerance_eur = 0
    /\ call.is_eur
    /\ call.amount1 = Some(Cents(10000))
    /\ call.amount2 = Some(-Cents(10000))
    /\ call.ret = <<TRUE, Frac(0, 1)>>

\* the same pair under the two tolerances: rejected as EUR, accepted otherwise
C20_ToleranceByCurrency ==
    /\ AmountCalled
    /\ DefaultTolerances
    /\ call.amount1 = Some(Cents(10000))
    /\ call.amount2 = Some(Cents(9200))
    /\ call.ret[1] = ~ call.is_eur
    /\ call.ret[2] = Frac(2, 25)

\* a zero amount against a non-zero one
C20_ZeroAgainstNonZero ==
    /\ AmountCalled
    /\ call.amount1 = Some(0)
    /\ call.amount2 = Some(Cents(10000))
    /\ call.ret = <<FALSE, Frac(1, 1)>>

\* two zero amounts
C20_TwoZeros ==
    /\ AmountCalled
    /\ call.amount1 = Some(0)
    /\ call.amount2 = Some(0)
    /\ call.ret = <<TRUE, Frac(0, 1)>>

\* a null amount
C20_NullAmount ==
    /\ AmountCalled
    /\ call.amount1 = None
    /\ call.amount2 = Some(Cents(10000))
    /\ call.ret = <<FALSE, Frac(1, 1)>>

-----------------------------------------------------------------------------
(* The performance tracker.                                                *)

StatsAsked == perf_tracker.asked # None

\* the durations recorded for an operation, in the order of the calls
RECURSIVE durations_of(_, _)

durations_of(operation, k) ==
    IF k = 0 THEN <<>>
    ELSE IF perf_tracker.recorded[k][1] = operation
    THEN Append(durations_of(operation, k - 1), perf_tracker.recorded[k][2])
    ELSE durations_of(operation, k - 1)

RECURSIVE sum_of(_)

sum_of(durations) ==
    IF durations = <<>> THEN 0
    ELSE durations[1] + sum_of(Tail(durations))

recorded_operations ==
    {perf_tracker.recorded[k][1] : k \in 1..Len(perf_tracker.recorded)}

non_negative_durations ==
    \A k \in 1..Len(perf_tracker.recorded) : perf_tracker.recorded[k][2] >= 0

\* what the statistics of an operation are, from the calls of record
expected_stats(operation) ==
    LET durations == durations_of(operation, Len(perf_tracker.recorded))
        values == {durations[k] : k \in 1..Len(durations)}
    IN  [count |-> Len(durations),
         total_time |-> sum_of(durations),
         min_time |-> CHOOSE d \in values : \A e \in values : d <= e,
         max_time |-> CHOOSE d \in values : \A e \in values : d >= e,
         avg_time |-> Frac(sum_of(durations), Len(durations))]

\* C21: after any calls of record with non-negative durations, get_stats
\* reports for each recorded operation the number of its calls, the sum, the
\* smallest and the largest of its durations, and avg_time = total_time /
\* count, which depend on the calls for that operation only; get_stats of an
\* operation that was never recorded returns an empty result.
C21_StatsOfEveryOperation ==
    (StatsAsked /\ non_negative_durations) =>
        LET operation == Val(perf_tracker.asked)
        IN  IF operation = None
            THEN /\ DOMAIN perf_tracker.stats = recorded_operations
                 /\ \A op \in recorded_operations :
                       perf_tracker.stats[op] = expected_stats(op)
            ELSE IF Val(operation) \in recorded_operations
            THEN perf_tracker.stats =
                     (Val(operation) :> expected_stats(Val(operation)))
            ELSE perf_tracker.stats = << >>

\* get_stats('') after record('ocr', 1.0), the operation '' never recorded:
\* the result is not empty, it holds the statistics of 'ocr'
C21_EmptyNameGivesAll ==
    /\ StatsAsked
    /\ non_negative_durations
    /\ perf_tracker.asked = Some(Some(O_empty))
    /\ perf_tracker.recorded = << <<O_ocr, 1000>> >>
    /\ perf_tracker.stats = (O_ocr :> expected_stats(O_ocr))

\* what does hold: the statistics are those of the claim for get_stats() and
\* for get_stats of every name but the empty one
C21_StatsOfNamedOperations ==
    (StatsAsked /\ non_negative_durations
                /\ perf_tracker.asked # Some(Some(O_empty))) =>
        LET operation == Val(perf_tracker.asked)
        IN  IF operation = None
            THEN /\ DOMAIN perf_tracker.stats = recorded_operations
                 /\ \A op \in recorded_operations :
                       perf_tracker.stats[op] = expected_stats(op)
            ELSE IF Val(operation) \in recorded_operations
            THEN perf_tracker.stats =
                     (Val(operation) :> expected_stats(Val(operation)))
            ELSE perf_tracker.stats = << >>

\* get_stats('ocr') after record('ocr', 2.5), record('match', 1.0) and
\* record('ocr', 0)
C21_TwoOperations ==
    /\ StatsAsked
    /\ perf_tracker.asked = Some(Some(O_ocr))
    /\ perf_tracker.recorded = << <<O_ocr, 2500>>, <<O_match, 1000>>, <<O_ocr, 0>> >>
    /\ perf_tracker.stats =
          (O_ocr :> [count |-> 2, total_time |-> 2500, min_time |-> 0,
                     max_time |-> 2500, avg_time |-> Frac(1250, 1)])

\* a call of record changes the entry of its operation only
C21_RecordLeavesOthers ==
    [][\A op \in DOMAIN perf_tracker.metrics :
          op # perf_tracker'.recorded[Len(perf_tracker'.recorded)][1]
              => perf_tracker'.metrics[op] = perf_tracker.metrics[op]]_perf_tracker

\* a negative duration: max_time stays at 0
C21_NegativeDuration ==
    /\ StatsAsked
    /\ perf_tracker.asked = Some(Some(O_ocr))
    /\ perf_tracker.recorded = << <<O_ocr, -500>> >>
    /\ perf_tracker.stats[O_ocr].max_time = 0
    /\ perf_tracker.stats[O_ocr].min_time = -500

-----------------------------------------------------------------------------
(* The tolerance band of the amount check.                                 *)

\* a pair that passed the bank-fee gate and whose amounts were compared: the
\* transaction has the amount key and the receipt has an amount
AmountsCompared ==
    /\ PairCalled
    /\ ~ has_exclusion_keyword(call.transaction)
    /\ "amount" \in DOMAIN call.transaction
    /\ Get(call.receipt, "amount", None) # None
    /\ Val(call.receipt.amount) # 0

\* the receipt amount in EUR, by the static rate of the receipt currency
receipt_amount_in_eur(receipt) ==
    IF is_eur_receipt(receipt) THEN Val(receipt.amount)
    ELSE (Val(receipt.amount) * static_rate(receipt.currency)) \div 100

\* the amount check with the non-EUR tolerance when the description has a
\* currency marker or the receipt is not in EUR, with the EUR tolerance
\* otherwise, on the receipt amount in EUR
banded_amount_check(transaction, receipt) ==
    is_amount_match(matcher, transaction.amount,
                    Some(receipt_amount_in_eur(receipt)),
                    ~ (has_currency_marker(transaction) \/ ~ is_eur_receipt(receipt)))

\* C22: in match_transaction_to_receipt the amount check uses the non-EUR
\* tolerance exactly when the description contains USD, GBP or FOREIGN (any
\* case) or the receipt currency is not EUR, and the EUR tolerance otherwise;
\* the amount of a receipt that is not in EUR is converted to EUR first, and
\* the converted amount is the one compared, whatever the description says.
C22_ToleranceBand ==
    AmountsCompared =>
        /\ call.ret.details.amount_match
              = banded_amount_check(call.transaction, call.receipt)[1]
        /\ call.ret.details.amount_diff_percent
              = banded_amount_check(call.transaction, call.receipt)[2]
        /\ ~ is_eur_receipt(call.receipt) =>
              call.ret.details.receipt_amount_converted
                  = receipt_amount_in_eur(call.receipt)

\* 10.00 EUR against a receipt of 10.40 USD, the description without a
\* currency marker: 9.568 EUR is compared under the 20% tolerance, the
\* difference is 4.32% and the amounts match
C22_Witness ==
    /\ AmountsCompared
    /\ DefaultTolerances
    /\ ~ has_currency_marker(call.transaction)
    /\ call.transaction.amount = Some(Cents(1000))
    /\ call.receipt.amount = Some(Cents(1040))
    /\ call.receipt.currency = S_USD
    /\ call.ret.details.receipt_amount_converted = 95680
    /\ call.ret.details.amount_diff_percent = Frac(432, 10000)
    /\ call.ret.details.amount_match

\* 10.00 EUR against a receipt of 10.40 EUR, "usd" in the description: the
\* difference of 3.85% is inside the 20% tolerance
C22_MarkerInDescription ==
    /\ AmountsCompared
    /\ DefaultTolerances
    /\ has_currency_marker(call.transaction)
    /\ call.transaction.amount = Some(Cents(1000))
    /\ call.receipt.amount = Some(Cents(1040))
    /\ call.receipt.currency = S_EUR
    /\ call.ret.details.amount_diff_percent = Frac(1, 26)
    /\ call.ret.details.amount_match

\* the same amounts without a marker: outside the 0.1% tolerance
C22_EurBand ==
    /\ AmountsCompared
    /\ DefaultTolerances
    /\ ~ has_currency_marker(call.transaction)
    /\ call.transaction.amount = Some(Cents(1000))
    /\ call.receipt.amount = Some(Cents(1040))
    /\ call.receipt.currency = S_EUR
    /\ call.ret.details.amount_diff_percent = Frac(1, 26)
    /\ ~ call.ret.details.amount_match

-----------------------------------------------------------------------------
(* The graduated scale.                                                    *)

\* a pair that passed the bank-fee gate
PairEvaluated == PairCalled /\ ~ has_exclusion_keyword(call.transaction)

\* the ratio is at most p per cent
at_most_percent(ratio, p) == ratio.num * 100 <= p * ratio.den

\* merchant score and amount difference are on the graduated scale
on_graduated_scale(merchant_score, amount_diff_percent) ==
    \/ merchant_score >= 60
    \/ /\ merchant_score >= 40 /\ merchant_score <= 59
       /\ at_most_percent(amount_diff_percent, 5)
    \/ /\ merchant_score >= 25 /\ merchant_score <= 39
       /\ at_most_percent(amount_diff_percent, 3)
    \/ /\ merchant_score < 25
       /\ at_most_percent(amount_diff_percent, 1)

\* C23: every pair that match_transaction_to_receipt accepts has
\* merchant_score >= 60, or merchant_score in 40..59 with amount_diff_percent
\* <= 5%, or merchant_score in 25..39 with amount_diff_percent <= 3%, or
\* merchant_score < 25 with amount_diff_percent <= 1%; a pair inside the
\* amount tolerance but outside this scale is rejected.
C23_GraduatedScale ==
    PairEvaluated =>
        /\ call.ret.is_match =>
              on_graduated_scale(call.ret.details.merchant_score,
                                 call.ret.details.amount_diff_percent)
        /\ (/\ call.ret.details.amount_match
            /\ ~ on_graduated_scale(call.ret.details.merchant_score,
                                    call.ret.details.amount_diff_percent))
              => ~ call.ret.is_match

\* 10.00 EUR against 10.00 USD = 9.20 EUR: the difference of 8% is inside the
\* 20% tolerance, the merchant score is 59, and the pair is rejected
C23_Witness ==
    /\ PairEvaluated
    /\ call.ret.details.amount_match
    /\ call.ret.details.amount_diff_percent = Frac(8, 100)
    /\ call.ret.details.merchant_score = 59
    /\ ~ call.ret.is_match
    /\ "rejected_reason" \notin DOMAIN call.ret.details

\* the cut-offs are inclusive: a difference of exactly 5% is accepted with
\* merchant score 40, and one of exactly 1% with merchant score 0
C23_BoundaryAccepted ==
    /\ PairEvaluated
    /\ call.ret.is_match
    /\ \/ /\ call.ret.details.amount_diff_percent = Frac(5, 100)
          /\ call.ret.details.merchant_score = 40
       \/ /\ call.ret.details.amount_diff_percent = Frac(1, 100)
          /\ call.ret.details.merchant_score = 0

\* a difference of 4.32% is accepted with merchant score 40 and rejected with
\* merchant score 39
C23_BandsDiffer ==
    /\ PairEvaluated
    /\ call.ret.details.amount_match
    /\ call.ret.details.amount_diff_percent = Frac(432, 10000)
    /\ \/ call.ret.details.merchant_score = 40 /\ call.ret.is_match
       \/ call.ret.details.merchant_score = 39 /\ ~ call.ret.is_match

-----------------------------------------------------------------------------
(* Matching without an amount match.                                       *)

\* both records have a date
both_dated(transaction, receipt) ==
    /\ Get(transaction, "date", None) # None
    /\ Get(receipt, "date", None) # None

\* the number of days between the two dates
days_apart(transaction, receipt) ==
    Abs(Val(transaction.date) - Val(receipt.date))

C24_NoAmountAccepted ==
    /\ PairEvaluated
    /\ call.receipt.amount = None
    /\ call.ret.details.merchant_score = 60
    /\ both_dated(call.transaction, call.receipt)
    /\ days_apart(call.transaction, call.receipt) = 21
    /\ call.ret.is_match
    /\ call.ret.details.matched_without_amount = TRUE

\* merchant score 69 and dates 22 days apart, merchant score 100 and dates 31
\* days apart, merchant score 100 and no receipt date: rejected
C24_TooFarApart ==
    /\ PairEvaluated
    /\ ~ call.ret.details.amount_match
    /\ ~ call.ret.is_match
    /\ \/ /\ call.ret.details.merchant_score = 69
          /\ both_dated(call.transaction, call.receipt)
          /\ days_apart(call.transaction, call.receipt) = 22
       \/ /\ call.ret.details.merchant_score = 100
          /\ both_dated(call.transaction, call.receipt)
          /\ days_apart(call.transaction, call.receipt) = 31
       \/ /\ call.ret.details.merchant_score = 100
          /\ call.receipt.date = None

-----------------------------------------------------------------------------
(* The confidence.                                                         *)

\* the date score of a pair: 100 for 0 days, 90 up to 7, 70 up to 14, 50 up
\* to 21, 30 up to 30 days, 0 beyond 30 days or when a date is missing
date_score_by_days(transaction, receipt) ==
    IF ~ both_dated(transaction, receipt) THEN 0
    ELSE LET days == days_apart(transaction, receipt)
         IN  IF days = 0 THEN 100
             ELSE IF days <= 7 THEN 90
             ELSE IF days <= 14 THEN 70
             ELSE IF days <= 21 THEN 50
             ELSE IF days <= 30 THEN 30
             ELSE 0

\* the amount difference of the details, capped at 1
capped_difference(details) ==
    IF details.amount_diff_percent.num > details.amount_diff_percent.den
    THEN Frac(1, 1)
    ELSE details.amount_diff_percent

\* the integer part of 50 * (1 - min(diff, 1)) [if amount_match]
\* + 0.35 * merchant_score + 0.15 * date_score, in hundredths over the
\* denominator of the difference
weighted_confidence(details, date_score) ==
    LET diff == capped_difference(details)
        amount_hundredths == IF details.amount_match
                             THEN 5000 * (diff.den - diff.num)
                             ELSE 0
    IN  (amount_hundredths
             + (35 * details.merchant_score + 15 * date_score) * diff.den)
            \div (100 * diff.den)

\* the receipt with the next date of the inputs that is closer to the
\* transaction (any date of the inputs, the farthest, for a receipt without)
next_closer_receipts(transaction, receipt) ==
    LET closer == {date \in ReceiptDates \ {None} :
                      \/ receipt.date = None
                      \/ Abs(Val(transaction.date) - Val(date))
                             < days_apart(transaction, receipt)}
    IN  {[receipt EXCEPT !.date = date] :
            date \in {date \in closer :
                         \A other \in closer :
                             Abs(Val(transaction.date) - Val(other))
                                 <= Abs(Val(transaction.date) - Val(date))}}

\* the next score of the library above the one it returns
next_higher_ratios ==
    {[score |-> s] :
        s \in {s \in Scores : /\ s > partial_ratio.score
                              /\ \A other \in Scores :
                                    other > partial_ratio.score => s <= other}}

\* C25: for every pair that passes the bank-fee gate, accepted or rejected,
\* the confidence is the integer part of 50 * (1 - min(amount_diff_percent,
\* 1)) [if amount_match, else 0] + 0.35 * merchant_score + 0.15 * date_score,
\* with date_score 100 for 0 days, 90 up to 7, 70 up to 14, 50 up to 21, 30
\* up to 30 days and 0 beyond or when a date is missing; the confidence does
\* not decrease when the merchant score increases or the dates get closer,
\* all else equal (stated from each pair to the next score and to the next
\* closer date of the inputs).
C25_Confidence ==
    PairEvaluated =>
        /\ call.ret.details.date_score
              = date_score_by_days(call.transaction, call.receipt)
        /\ call.ret.confidence
              = weighted_confidence(call.ret.details,
                    date_score_by_days(call.transaction, call.receipt))
        /\ \A ratio \in next_higher_ratios :
              match_transaction_to_receipt(matcher, call.transaction,
                                           call.receipt, ratio).confidence
                  >= call.ret.confidence
        /\ Get(call.transaction, "date", None) # None =>
              \A closer \in next_closer_receipts(call.transaction, call.receipt) :
                  match_transaction_to_receipt(matcher, call.transaction, closer,
                                               partial_ratio).confidence
                      >= call.ret.confidence

\* a rejected pair with its confidence: 10.00 EUR against 10.00 USD = 9.20
\* EUR, merchant score 59, dates 7 days apart: 50 * 0.92 + 20.65 + 13.5 =
\* 80.15, confidence 80
C25_Witness ==
    /\ PairEvaluated
    /\ ~ call.ret.is_match
    /\ call.ret.details.amount_match
    /\ call.ret.details.amount_diff_percent = Frac(8, 100)
    /\ call.ret.details.merchant_score = 59
    /\ both_dated(call.transaction, call.receipt)
    /\ days_apart(call.transaction, call.receipt) = 7
    /\ call.ret.details.date_score = 90
    /\ call.ret.confidence = 80

\* no amount match, merchant score 70, dates 31 days apart: 24.5, confidence 24
C25_BeyondThirtyDays ==
    /\ PairEvaluated
    /\ ~ call.ret.details.amount_match
    /\ call.ret.details.merchant_score = 70
    /\ both_dated(call.transaction, call.receipt)
    /\ days_apart(call.transaction, call.receipt) = 31
    /\ call.ret.details.date_score = 0
    /\ call.ret.confidence = 24

-----------------------------------------------------------------------------
(* The order of the transactions.                                          *)

\* the pair result of a transaction and a receipt under the matcher
pair_confidence(transaction, receipt) ==
    match_transaction_to_receipt(matcher, transaction, receipt, partial_ratio)

\* the j-th transaction consumed a receipt for which the later k-th is
\* accepted with strictly higher confidence, and the k-th is unmatched or
\* matched to a receipt of lower confidence
starved(j, k) ==
    /\ j < k
    /\ results[j].matched
    /\ LET earlier == pair_confidence(transactions[j], results[j].receipt)
           later == pair_confidence(transactions[k], results[j].receipt)
       IN  /\ later.is_match
           /\ later.confidence > earlier.confidence
           /\ \/ ~ results[k].matched
              \/ pair_of_result(k).confidence < later.confidence

starved_pairs ==
    {jk \in (1..Len(results)) \X (1..Len(results)) : starved(jk[1], jk[2])}

RECURSIVE batch_from(_, _, _, _)

\* the results of match_all_transactions on a list of transactions and the
\* receipts of the batch, from the k-th transaction on
batch_from(trans_list, k, so_far, used) ==
    IF k > Len(trans_list) THEN so_far
    ELSE LET result == match_result_of(matcher, k - 1, trans_list[k], receipts, used,
                                       build_amount_frequency(trans_list),
                                       partial_ratio)
         IN  batch_from(trans_list, k + 1, Append(so_far, result),
                        IF result.matched THEN used \cup {result.receipt.filename}
                                          ELSE used)

\* the pairs (transaction, receipt) of a list of results
produced_pairs(match_results) ==
    {<<match_results[k].transaction, match_results[k].receipt>> :
        k \in {k \in 1..Len(match_results) : match_results[k].matched}}

\* the transactions of the batch in every order
reorderings ==
    {[k \in 1..Len(transactions) |-> transactions[p[k]]] :
        p \in {p \in [1..Len(transactions) -> 1..Len(transactions)] :
                  \A a, b \in 1..Len(transactions) : a # b => p[a] # p[b]}}

\* C26: the batch assignment is greedy and depends on the order, without
\* backtracking: within a batch a consumed receipt is never released and a
\* result never changed, and in every batch in which an earlier transaction
\* consumed a receipt for which a later transaction is accepted with strictly
\* higher confidence, the later one being unmatched or matched to a receipt
\* of lower confidence, some other order of the transactions produces other
\* pairs.
C26_GreedyOrderDependent ==
    /\ [][pc = "loop" =>
             /\ used_receipts \subseteq used_receipts'
             /\ Len(results') >= Len(results)
             /\ SubSeq(results', 1, Len(results)) = results]_vars
    /\ []((Returned /\ starved_pairs # {}) =>
             \E trans_list \in reorderings :
                 produced_pairs(batch_from(trans_list, 1, <<>>, {}))
                     # produced_pairs(results))

\* 'Unknown Merchant' of -10.00 takes the receipt of REWE of 10.00 with
\* confidence 65; 'REWE SAGT DANKE/Berlin' of 10.00, accepted for it with
\* confidence 100, comes second and is unmatched
C26_Witness ==
    /\ Returned
    /\ Len(results) = 2
    /\ starved(1, 2)
    /\ results[1].receipt.filename = "a.pdf"
    /\ pair_confidence(transactions[1], results[1].receipt).confidence = 65
    /\ pair_confidence(transactions[2], results[1].receipt).confidence = 100
    /\ ~ results[2].matched

\* the later transaction is matched to a receipt of lower confidence
C26_LowerConfidenceReceipt ==
    /\ Returned
    /\ Len(results) = 2
    /\ starved(1, 2)
    /\ results[2].matched
    /\ pair_of_result(2).confidence
           < pair_confidence(transactions[2], results[1].receipt).confidence

-----------------------------------------------------------------------------
(* Two batches on one matcher.                                             *)

\* the second call of match_all_transactions has returned
SecondReturned == Returned /\ call.op = "match_all_transactions"

\* the filenames consumed by a list of results
consumed_by(match_results) ==
    {match_results[k].receipt.filename :
        k \in {k \in 1..Len(match_results) : match_results[k].matched}}

\* C27: no state is carried between batches and the inputs are left
\* unchanged: while match_all_transactions runs, the transaction list, the
\* receipt list and the matcher stay as they are, and every result holds its
\* transaction as it was given; a second call on the same matcher returns
\* what a first call on its inputs returns, so a receipt consumed in the
\* first call is available again, and a second call with the inputs of the
\* first returns equal results.
C27_NoStateBetweenBatches ==
    /\ [][pc = "loop" =>
             /\ transactions' = transactions
             /\ receipts' = receipts
             /\ matcher' = matcher
             /\ \A k \in 1..Len(results') :
                   /\ results'[k].transaction = transactions[k]
                   /\ results'[k].matched =>
                         \E n \in 1..Len(receipts) :
                             results'[k].receipt = receipts[n]]_vars
    /\ [](SecondReturned =>
             /\ receipts = call.receipts
             /\ results = batch_from(transactions, 1, <<>>, {})
             /\ transactions = call.transactions => results = call.ret)

\* the second call with the inputs of the first: the two receipts consumed by
\* the first call are consumed again
C27_Witness ==
    /\ SecondReturned
    /\ transactions = call.transactions
    /\ Cardinality(consumed_by(call.ret)) = 2
    /\ consumed_by(results) = consumed_by(call.ret)
    /\ results = call.ret

\* the second call with the last transaction of the first, which was
\* unmatched there: it is given the receipt that the first call consumed
C27_ConsumedReceiptAvailable ==
    /\ SecondReturned
    /\ Len(call.transactions) = 2
    /\ ~ call.ret[2].matched
    /\ transactions = <<call.transactions[2]>>
    /\ results[1].matched
    /\ results[1].receipt.filename \in consumed_by(call.ret)


-----------------------------------------------------------------------------
(* C28: an accepted pair has a positive confidence.                        *)

BestCalled == call.op = "find_best_match"

\* what match_transaction_to_receipt returns for the k-th receipt of the pool
evaluated(k) ==
    match_transaction_to_receipt(matcher, call.transaction, call.receipts[k],
                                 partial_ratio)

accepted_receipts == {k \in 1..Len(call.receipts) : evaluated(k).is_match}

\* C28: for every tolerance from 0 to 1, every accepted pair has a confidence
\* of at least 1, and find_best_match returns None exactly when no receipt
\* of the pool is accepted
C28_AcceptedIsPositive ==
    BestCalled =>
        /\ \A k \in accepted_receipts : evaluated(k).confidence >= 1
        /\ (call.ret = None) <=> (accepted_receipts = {})

\* a pool whose only accepted receipt differs by 99.9% in the amount, under
\* a tolerance of 1: it is returned, with a confidence of 21
C28_Witness ==
    /\ BestCalled
    /\ matcher.amount_tolerance_eur = TolScale
    /\ Cardinality(accepted_receipts) = 1
    /\ \E k \in accepted_receipts :
          /\ call.receipts[k].amount = Some(Cents(1))
          /\ evaluated(k).confidence = 21
          /\ call.ret # None
          /\ Val(call.ret)[1] = call.receipts[k]
          /\ Val(call.ret)[2] = 21

\* a pool of two receipts of which none is accepted
C28_NoneAccepted ==
    /\ BestCalled
    /\ Len(call.receipts) = 2
    /\ accepted_receipts = {}
    /\ call.ret = None

-----------------------------------------------------------------------------
(* C29: is_eur of the details and the tolerance of the amount check.       *)

\* a pair whose amounts were compared under a tolerance: both are numbers
\* other than zero
ToleranceApplied ==
    /\ AmountsCompared
    /\ call.transaction.amount # None
    /\ Val(call.transaction.amount) # 0

\* the amount check used the non-EUR tolerance (C22_ToleranceBand)
non_eur_band_used(transaction, receipt) ==
    has_currency_marker(transaction) \/ ~ is_eur_receipt(receipt)

\* C29: in the details of a pair whose amounts were compared, is_eur is false
\* exactly when the non-EUR tolerance was applied and true exactly when the
\* EUR tolerance was applied
C29_IsEurReportsBand ==
    ToleranceApplied =>
        (call.ret.details.is_eur
            <=> ~ non_eur_band_used(call.transaction, call.receipt))

\* 10.00 EUR against a receipt of 10.40 USD, the description without a
\* currency marker: the amounts match at 4.32%, which only the non-EUR
\* tolerance allows, and the details say is_eur
C29_StaleIsEur ==
    /\ ToleranceApplied
    /\ DefaultTolerances
    /\ ~ has_currency_marker(call.transaction)
    /\ call.receipt.currency = S_USD
    /\ call.transaction.amount = Some(Cents(1000))
    /\ call.receipt.amount = Some(Cents(1040))
    /\ call.ret.details.amount_match
    /\ call.ret.details.amount_diff_percent = Frac(432, 10000)
    /\ ~ is_amount_match(matcher, call.transaction.amount,
                         Some(call.ret.details.receipt_amount_converted), TRUE)[1]
    /\ call.ret.details.is_eur

\* is_eur of the details is the value computed from the description alone
C29_IsEurReportsMarker ==
    PairEvaluated =>
        (call.ret.details.is_eur <=> ~ has_currency_marker(call.transaction))

\* a receipt in EUR and a description with a marker: is_eur is false
C29_MarkerGivesNonEur ==
    /\ ToleranceApplied
    /\ has_currency_marker(call.transaction)
    /\ is_eur_receipt(call.receipt)
    /\ ~ call.ret.details.is_eur

-----------------------------------------------------------------------------
(* C30: the merchant threshold and the results.                            *)

\* thresholds below, between and above the cut-offs 60 and 70
MerchantThresholds == {0, 40, 65, 100}

\* the matcher of the state with another merchant_threshold
with_threshold(threshold) ==
    ReceiptMatcher(matcher.amount_tolerance_eur, matcher.amount_tolerance_non_eur,
                   threshold)

\* the pair of the call as the matcher with another threshold evaluates it
pair_with_threshold(threshold) ==
    match_transaction_to_receipt(with_threshold(threshold), call.transaction,
                                 call.receipt, partial_ratio)

RECURSIVE batch_of(_, _, _, _)

\* the results of match_all_transactions of another matcher on the batch, from
\* the k-th transaction on
batch_of(self, k, so_far, used) ==
    IF k > Len(transactions) THEN so_far
    ELSE LET result == match_result_of(self, k - 1, transactions[k], receipts, used,
                                       amount_frequency, partial_ratio)
         IN  batch_of(self, k + 1, Append(so_far, result),
                      IF result.matched THEN used \cup {result.receipt.filename}
                                        ELSE used)

\* matched flag, receipt and confidence of every result
matched_receipts(match_results) ==
    [k \in 1..Len(match_results) |->
        IF match_results[k].matched
        THEN <<TRUE, match_results[k].receipt, match_results[k].confidence>>
        ELSE <<FALSE>>]

\* the merchant of the receipt was compared with the description
merchant_compared(transaction, receipt) ==
    /\ "description" \in DOMAIN transaction
    /\ Get(receipt, "merchant", None) \notin {None, Some(<<>>)}

\* the same batch results under every threshold
same_batch_results ==
    Returned =>
        \A threshold \in MerchantThresholds :
            matched_receipts(batch_of(with_threshold(threshold), 1, <<>>, {}))
                = matched_receipts(results)

\* C30: the merchant threshold influences only merchant_match of the details
\* (true iff merchant_score >= merchant_threshold): matchers that differ only
\* in the threshold return the same is_match and confidence for every pair and
\* the same receipts and confidences for every batch.
C30_ThresholdOnlyFlag ==
    /\ PairEvaluated =>
          \A threshold \in MerchantThresholds :
              LET other == pair_with_threshold(threshold)
              IN  /\ other.is_match = call.ret.is_match
                  /\ other.confidence = call.ret.confidence
                  /\ other.details.merchant_match
                        <=> other.details.merchant_score >= threshold
    /\ same_batch_results

\* C30, with the flag as the code sets it: merchant_match is true iff the
\* receipt has a merchant that was compared with the description and
\* merchant_score >= merchant_threshold; everything else of the pair result,
\* and the batch results, are the same under every threshold.
C30_ThresholdOnlyFlagCompared ==
    /\ PairEvaluated =>
          \A threshold \in MerchantThresholds :
              LET other == pair_with_threshold(threshold)
              IN  /\ other.is_match = call.ret.is_match
                  /\ other.confidence = call.ret.confidence
                  /\ [other.details EXCEPT !.merchant_match =
                                               call.ret.details.merchant_match]
                        = call.ret.details
                  /\ other.details.merchant_match
                        <=> /\ merchant_compared(call.transaction, call.receipt)
                            /\ other.details.merchant_score >= threshold
    /\ same_batch_results

\* a pair accepted without an amount match at merchant score 60: the flag is
\* true under the threshold 60 and false under 65, the result is the same
C30_Witness ==
    /\ PairEvaluated
    /\ matcher.merchant_threshold = DefaultMerchantThreshold
    /\ call.ret.is_match
    /\ ~ call.ret.details.amount_match
    /\ call.ret.details.merchant_score = 60
    /\ call.ret.details.merchant_match
    /\ ~ pair_with_threshold(65).details.merchant_match
    /\ pair_with_threshold(65).is_match
    /\ pair_with_threshold(65).confidence = call.ret.confidence

\* a receipt without a merchant under the threshold 0: the score is 0 and the
\* flag is false
C30_NoMerchantThresholdZero ==
    /\ PairEvaluated
    /\ ~ merchant_compared(call.transaction, call.receipt)
    /\ pair_with_threshold(0).details.merchant_score = 0
    /\ ~ pair_with_threshold(0).details.merchant_match

\* a batch with a matched transaction, the same under every threshold
C30_BatchWitness ==
    /\ Returned
    /\ \E k \in 1..Len(results) :
          /\ results[k].matched
          /\ results[k].match_details.merchant_score = 70
    /\ \A threshold \in MerchantThresholds :
          matched_receipts(batch_of(with_threshold(threshold), 1, <<>>, {}))
              = matched_receipts(results)
====
